---- MODULE Spec2Model ----
(***************************************************************************)
(* graphviz-rust: the DOT data model (dot-structures), its builder macros  *)
(* (dot-generator), the printer (src/printer.rs) and the parser            *)
(* (src/parser.rs).                                                        *)
(*                                                                         *)
(* Text is a sequence of one-character strings.  Option<T> is a sequence   *)
(* of length 0 (None) or 1 (Some).  A tuple struct is a tuple.  An enum    *)
(* variant is a record with a tag and a field named after the variant.     *)
(***************************************************************************)
EXTENDS Integers, Sequences, FiniteSets, TLC

VARIABLES ctx, other, g, item, src, out, res, op, entry

vars == <<ctx, other, g, item, src, out, res, op, entry>>

(***************************************************************************)
(* Text helpers: String::len, str::repeat, [String]::join, trim_matches    *)
(***************************************************************************)
None == <<>>

Some(x) == <<x>>

\* let-binding of a computed value: the(\{ e(x) : x \in \{v\} \}) is e(v)
the(S) == CHOOSE x \in S : TRUE

RECURSIVE repeat(_, _)
repeat(ch, n) == IF n <= 0 THEN <<>> ELSE <<ch>> \o repeat(ch, n - 1)

RECURSIVE join(_, _)
join(strs, sep) ==
    IF Len(strs) = 0 THEN <<>>
    ELSE IF Len(strs) = 1 THEN strs[1]
    ELSE strs[1] \o sep \o join(Tail(strs), sep)

RECURSIVE trim_start_matches(_, _)
trim_start_matches(s, ch) ==
    IF Len(s) > 0 /\ s[1] = ch THEN trim_start_matches(Tail(s), ch) ELSE s

RECURSIVE trim_end_matches(_, _)
trim_end_matches(s, ch) ==
    IF Len(s) > 0 /\ s[Len(s)] = ch
    THEN trim_end_matches(SubSeq(s, 1, Len(s) - 1), ch)
    ELSE s

trim_matches(s, ch) == trim_end_matches(trim_start_matches(s, ch), ch)

QT == "\""

NL == <<"\n">>

kw_strict == <<"s", "t", "r", "i", "c", "t">>

kw_graph == <<"g", "r", "a", "p", "h">>

kw_digraph == <<"d", "i">> \o kw_graph

kw_subgraph == <<"s", "u", "b">> \o kw_graph

kw_node == <<"n", "o", "d", "e">>

kw_edge == <<"e", "d", "g", "e">>

(***************************************************************************)
(* Data model: dot-structures                                              *)
(***************************************************************************)
Id(tag, v) == [tag |-> tag, v |-> v]

\* an equality of Ids that looks at the inner string only
Id_eq_string(a, b) == a.v = b.v

\* #[derive(PartialEq, Eq)] on enum Id
Id_eq(a, b) == a.tag = b.tag /\ a.v = b.v

Port(id, d) == <<id, d>>

NodeId(id, port) == <<id, port>>

Attribute(k, v) == <<k, v>>

GraphAttributes(tag, attrs) == [tag |-> tag, attrs |-> attrs]

Node(id, attributes) == [id |-> id, attributes |-> attributes]

Subgraph(id, stmts) == [id |-> id, stmts |-> stmts]

VertexN(el) == [tag |-> "N", n |-> el]

VertexS(el) == [tag |-> "S", s |-> el]

EdgeTyPair(l, r) == [tag |-> "Pair", l |-> l, r |-> r]

EdgeTyChain(vs) == [tag |-> "Chain", vs |-> vs]

Edge(ty, attributes) == [ty |-> ty, attributes |-> attributes]

StmtNode(e) == [tag |-> "Node", node |-> e]

StmtSubgraph(e) == [tag |-> "Subgraph", subgraph |-> e]

StmtAttribute(e) == [tag |-> "Attribute", attribute |-> e]

StmtGAttribute(e) == [tag |-> "GAttribute", gattribute |-> e]

StmtEdge(e) == [tag |-> "Edge", edge |-> e]

Graph(tag, id, strict, stmts) ==
    [tag |-> tag, id |-> id, strict |-> strict, stmts |-> stmts]

\* Graph::add_stmt
add_stmt(gr, stmt) == [gr EXCEPT !.stmts = Append(@, stmt)]

(***************************************************************************)
(* Builder macros: dot-generator                                           *)
(***************************************************************************)
id_anon == Id("Anonymous", <<>>)

id_html(e) == Id("Html", e)

id_esc(e) == Id("Escaped", <<QT>> \o e \o <<QT>>)

id_plain(e) == Id("Plain", e)

port_default == Port(None, None)

edge_macro(vs, attrs) ==
    IF Len(vs) = 2
    THEN Edge(EdgeTyPair(vs[1], vs[2]), attrs)
    ELSE Edge(EdgeTyChain(vs), attrs)

(***************************************************************************)
(* PrinterContext                                                          *)
(***************************************************************************)
DefaultIndentStep == 2

DefaultInlineSize == 90

PrinterContext_default ==
    [is_digraph |-> FALSE,
     mult_node_attr_on_s_l |-> FALSE,
     semi |-> FALSE,
     indent |-> 0,
     indent_step |-> DefaultIndentStep,
     l_s |-> NL,
     inline_size |-> DefaultInlineSize,
     l_s_i |-> <<>>,
     l_s_m |-> NL,
     attr_value_printers |-> <<>>]

PrinterContext_new(semi, indent_step, line_s, inline_size) ==
    [is_digraph |-> FALSE,
     mult_node_attr_on_s_l |-> FALSE,
     semi |-> semi,
     indent |-> 0,
     indent_step |-> indent_step,
     l_s |-> line_s,
     inline_size |-> inline_size,
     l_s_i |-> line_s,
     l_s_m |-> <<>>,
     attr_value_printers |-> <<>>]

always_inline(c) == [c EXCEPT !.l_s_m = c.l_s_i, !.l_s = c.l_s_i]

with_semi(c) == [c EXCEPT !.semi = TRUE]

with_node_mult_attr_s_l(c) == [c EXCEPT !.mult_node_attr_on_s_l = TRUE]

with_indent_step(c, step) == [c EXCEPT !.indent_step = step]

with_line_sep(c, sep) == [c EXCEPT !.l_s = sep, !.l_s_m = sep]

with_inline_size(c, inline_s) == [c EXCEPT !.inline_size = inline_s]

\* HashMap::insert: attr_value_printers is a sequence of <<key, formatter>>
\* entries with at most one entry per key.
RECURSIVE map_remove(_, _)
map_remove(m, k) ==
    IF Len(m) = 0 THEN <<>>
    ELSE IF m[1][1] = k THEN map_remove(Tail(m), k)
    ELSE <<m[1]>> \o map_remove(Tail(m), k)

with_attr_value_printer(c, attr_id, fmt) ==
    [c EXCEPT !.attr_value_printers = Append(map_remove(@, attr_id), <<attr_id, fmt>>)]

\* a lookup that compares the keys' strings and not their variants
RECURSIVE map_get_by_text(_, _)
map_get_by_text(m, k) ==
    IF Len(m) = 0 THEN None
    ELSE IF m[1][1].v = k.v THEN Some(m[1][2])
    ELSE map_get_by_text(Tail(m), k)

\* HashMap::get
RECURSIVE map_get(_, _)
map_get(m, k) ==
    IF Len(m) = 0 THEN None
    ELSE IF m[1][1] = k THEN Some(m[1][2])
    ELSE map_get(Tail(m), k)

\* a context that never reports the inline mode
is_inline_on_never(c) == FALSE

is_inline_on(c) == c.l_s = c.l_s_i

indent(c) == IF is_inline_on(c) THEN <<>> ELSE repeat(" ", c.indent)

\* a context whose indent never grows
indent_grow_skipped(c) == c

indent_grow(c) ==
    IF ~is_inline_on(c) THEN [c EXCEPT !.indent = c.indent + c.indent_step] ELSE c

\* usize subtraction: an underflow is reported in uflow and leaves indent alone
indent_shrink(c) ==
    IF ~is_inline_on(c)
    THEN IF c.indent >= c.indent_step
         THEN [c |-> [c EXCEPT !.indent = c.indent - c.indent_step], uflow |-> FALSE]
         ELSE [c |-> c, uflow |-> TRUE]
    ELSE [c |-> c, uflow |-> FALSE]

inline_mode(c) == [c EXCEPT !.l_s = c.l_s_i]

multiline_mode(c) == [c EXCEPT !.l_s = c.l_s_m]

(***************************************************************************)
(* AttributeValuePrinter closures: the one of the tests ("stars") and one  *)
(* that uses every argument ("block")                                      *)
(***************************************************************************)
Formatter(fmt, value, line_sep, ind, step) ==
    IF fmt = "stars"
    THEN <<QT, "*", "*">> \o trim_matches(value, QT) \o <<"*", "*", QT>>
    ELSE line_sep \o ind \o repeat(" ", step) \o value


(***************************************************************************)
(* Printer: impl DotPrinter for ...                                        *)
(* A print call returns the text s, the context c as the call leaves it,   *)
(* and ok = FALSE when the call panics.                                    *)
(***************************************************************************)
R(s, c, ok) == [s |-> s, c |-> c, ok |-> ok]

Id_print(id, c) == IF id.tag = "Anonymous" THEN <<>> ELSE id.v

Port_print(p, c) ==
    IF p[1] # None /\ p[2] # None
    THEN R(<<":">> \o Id_print(p[1][1], c) \o <<":">> \o p[2][1], c, TRUE)
    ELSE IF p[1] = None /\ p[2] # None
    THEN R(<<":">> \o p[2][1], c, TRUE)
    ELSE IF p[1] # None /\ p[2] = None
    THEN R(<<":">> \o Id_print(p[1][1], c), c, TRUE)
    ELSE R(<<>>, c, FALSE)

NodeId_print(n, c) ==
    IF n[2] = None
    THEN R(Id_print(n[1], c), c, TRUE)
    ELSE the({ R(Id_print(n[1], c) \o p.s, p.c, p.ok)
               : p \in {Port_print(n[2][1], c)} })

Attribute_print(a, c) ==
    the({ IF formatter # None
          THEN Id_print(a[1], c) \o <<"=">>
               \o Formatter(formatter[1], Id_print(a[2], c), c.l_s, indent(c), c.indent_step)
          ELSE Id_print(a[1], c) \o <<"=">> \o Id_print(a[2], c)
          : formatter \in {map_get(c.attr_value_printers, a[1])} })

\* an attribute list that goes multiline from its first attribute on
VecAttribute_print_from_one(self, c) ==
    the({ IF Len(attrs) = 0
          THEN R(<<>>, c, TRUE)
          ELSE IF Len(attrs) > 0 /\ c.mult_node_attr_on_s_l
          THEN the({ R(<<"[">> \o c1.l_s \o indent(c1)
                       \o join(attrs, <<",">> \o c1.l_s \o indent(c1))
                       \o c1.l_s \o indent(c) \o <<"]">>,
                       sh.c, ~sh.uflow)
                     : sh \in {indent_shrink(c1)} })
          ELSE R(<<"[">> \o join(attrs, <<",">>) \o <<"]">>, c, TRUE)
          : attrs \in {[i \in 1..Len(self) |-> Attribute_print(self[i], c)]},
            c1 \in {indent_grow(c)} })

VecAttribute_print(self, c) ==
    the({ IF Len(attrs) = 0
          THEN R(<<>>, c, TRUE)
          ELSE IF Len(attrs) > 1 /\ c.mult_node_attr_on_s_l
          THEN the({ R(<<"[">> \o c1.l_s \o indent(c1)
                       \o join(attrs, <<",">> \o c1.l_s \o indent(c1))
                       \o c1.l_s \o indent(c) \o <<"]">>,
                       sh.c, ~sh.uflow)
                     : sh \in {indent_shrink(c1)} })
          ELSE R(<<"[">> \o join(attrs, <<",">>) \o <<"]">>, c, TRUE)
          : attrs \in {[i \in 1..Len(self) |-> Attribute_print(self[i], c)]},
            c1 \in {indent_grow(c)} })

GraphAttributes_print(ga, c) ==
    the({ R((IF ga.tag = "Graph" THEN kw_graph
             ELSE IF ga.tag = "Node" THEN kw_node ELSE kw_edge) \o a.s, a.c, a.ok)
          : a \in {VecAttribute_print(ga.attrs, c)} })

Node_print(n, c) ==
    the({ the({ R(i.s \o a.s, a.c, i.ok /\ a.ok)
                : a \in {VecAttribute_print(n.attributes, i.c)} })
          : i \in {NodeId_print(n.id, c)} })

RECURSIVE Subgraph_print(_, _)
RECURSIVE VecStmt_map(_, _, _)
RECURSIVE Stmt_print(_, _)
RECURSIVE print_edge(_, _)
RECURSIVE print_chain(_, _, _, _)
RECURSIVE Edge_print(_, _)

Vertex_print(v, c) ==
    IF v.tag = "N" THEN NodeId_print(v.n, c) ELSE Subgraph_print(v.s, c)

\* self.iter().map(|e| e.print(ctx)).collect(): acc.s is the Vec<String>
VecStmt_map(self, i, acc) ==
    IF i > Len(self) THEN acc
    ELSE the({ VecStmt_map(self, i + 1, next)
               : next \in { R(Append(acc.s, r.s), r.c, acc.ok /\ r.ok)
                            : r \in {Stmt_print(self[i], acc.c)} } })

VecStmt_print(self, c) ==
    the({ R(join(attrs.s, attrs.c.l_s), attrs.c, attrs.ok)
          : attrs \in {VecStmt_map(self, 1, R(<<>>, c, TRUE))} })

\* a subgraph whose closing brace is indented like its statements
Subgraph_print_deep_brace(sg, c) ==
    the({ the({ the({ R(kw_subgraph \o <<" ">> \o Id_print(sg.id, c1) \o <<" ", "{">> \o c1.l_s
                        \o body.s \o body.c.l_s \o indent(c1) \o <<"}">>,
                        sh.c, body.ok /\ ~sh.uflow)
                      : sh \in {indent_shrink(body.c)} })
                : body \in {VecStmt_print(sg.stmts, c1)} })
          : c1 \in {indent_grow(c)} })

Subgraph_print(sg, c) ==
    the({ the({ the({ R(kw_subgraph \o <<" ">> \o Id_print(sg.id, c1) \o <<" ", "{">> \o c1.l_s
                        \o body.s \o body.c.l_s \o indent(c) \o <<"}">>,
                        sh.c, body.ok /\ ~sh.uflow)
                      : sh \in {indent_shrink(body.c)} })
                : body \in {VecStmt_print(sg.stmts, c1)} })
          : c1 \in {indent_grow(c)} })

\* a graph printed with its body directly behind the opening brace's line
\* separator and the closing brace directly behind the body
Graph_print_one_sep(gr, c) ==
    the({ the({ R((IF gr.strict THEN kw_strict \o <<" ">> ELSE <<>>)
                  \o (IF gr.tag = "DiGraph" THEN kw_digraph ELSE kw_graph)
                  \o <<" ">> \o Id_print(gr.id, body.c) \o <<" ", "{">>
                  \o body.c.l_s \o body.s \o <<"}">>,
                  body.c, body.ok)
                : body \in {VecStmt_print(gr.stmts, c2)} })
          : c2 \in {[indent_grow(c) EXCEPT !.is_digraph = (gr.tag = "DiGraph")]} })

\* a graph that sets the directedness flag behind its body
Graph_print_flag_late(gr, c) ==
    the({ the({ R((IF gr.strict THEN kw_strict \o <<" ">> ELSE <<>>)
                  \o (IF gr.tag = "DiGraph" THEN kw_digraph ELSE kw_graph)
                  \o <<" ">> \o Id_print(gr.id, body.c) \o <<" ", "{">>
                  \o body.c.l_s \o body.s \o body.c.l_s \o <<"}">>,
                  [body.c EXCEPT !.is_digraph = (gr.tag = "DiGraph")], body.ok)
                : body \in {VecStmt_print(gr.stmts, c2)} })
          : c2 \in {indent_grow(c)} })

Graph_print(gr, c) ==
    the({ the({ R((IF gr.strict THEN kw_strict \o <<" ">> ELSE <<>>)
                  \o (IF gr.tag = "DiGraph" THEN kw_digraph ELSE kw_graph)
                  \o <<" ">> \o Id_print(gr.id, body.c) \o <<" ", "{">>
                  \o body.c.l_s \o body.s \o body.c.l_s \o <<"}">>,
                  body.c, body.ok)
                : body \in {VecStmt_print(gr.stmts, c2)} })
          : c2 \in {[indent_grow(c) EXCEPT !.is_digraph = (gr.tag = "DiGraph")]} })

\* a statement that gets its semicolon in the multiline mode only
Stmt_print_semi_multiline(st, c) ==
    the({ R(indent(c) \o e.s \o (IF c.semi /\ ~is_inline_on(c) THEN <<";">> ELSE <<>>),
            e.c, e.ok)
          : e \in { IF st.tag = "Node" THEN Node_print(st.node, c)
                    ELSE IF st.tag = "Subgraph" THEN Subgraph_print(st.subgraph, c)
                    ELSE IF st.tag = "Attribute"
                    THEN R(Attribute_print(st.attribute, c), c, TRUE)
                    ELSE IF st.tag = "GAttribute"
                    THEN GraphAttributes_print(st.gattribute, c)
                    ELSE Edge_print(st.edge, c) } })

Stmt_print(st, c) ==
    the({ R(indent(c) \o e.s \o (IF c.semi THEN <<";">> ELSE <<>>), e.c, e.ok)
          : e \in { IF st.tag = "Node" THEN Node_print(st.node, c)
                    ELSE IF st.tag = "Subgraph" THEN Subgraph_print(st.subgraph, c)
                    ELSE IF st.tag = "Attribute"
                    THEN R(Attribute_print(st.attribute, c), c, TRUE)
                    ELSE IF st.tag = "GAttribute"
                    THEN GraphAttributes_print(st.gattribute, c)
                    ELSE Edge_print(st.edge, c) } })

\* for el in iter { chain = format!("{} {} {}", chain, bond, el.print(ctx)) }
print_chain(vs, i, bond, acc) ==
    IF i > Len(vs) THEN acc
    ELSE the({ print_chain(vs, i + 1, bond, next)
               : next \in { R(acc.s \o <<" ">> \o bond \o <<" ">> \o el.s, el.c, acc.ok /\ el.ok)
                            : el \in {Vertex_print(vs[i], acc.c)} } })

\* a bond that ignores the directedness flag of the context
edge_bond_undirected(c) == <<"-", "-">>

\* let bond = if ctx.is_digraph { "->" } else { "--" }
edge_bond(c) == IF c.is_digraph THEN <<"-", ">">> ELSE <<"-", "-">>

print_edge(edge, c) ==
    the({ IF edge.ty.tag = "Pair"
          THEN the({ the({ IF Len(edge.attributes) = 0
                           THEN R(l.s \o <<" ">> \o bond \o <<" ">> \o r.s, r.c, l.ok /\ r.ok)
                           ELSE the({ R(l.s \o <<" ">> \o bond \o <<" ">> \o r.s
                                        \o <<" ">> \o a.s,
                                        a.c, l.ok /\ r.ok /\ a.ok)
                                      : a \in {VecAttribute_print(edge.attributes, r.c)} })
                           : r \in {Vertex_print(edge.ty.r, l.c)} })
                     : l \in {Vertex_print(edge.ty.l, c)} })
          ELSE IF Len(edge.ty.vs) = 0
          THEN R(<<>>, c, FALSE)
          ELSE the({ the({ the({ R(chain.s \o a.s, a.c, chain.ok /\ a.ok)
                                 : a \in {VecAttribute_print(edge.attributes, chain.c)} })
                           : chain \in {print_chain(edge.ty.vs, 2, bond, h)} })
                     : h \in {Vertex_print(edge.ty.vs[1], c)} })
          : bond \in {edge_bond(c)} })

Edge_print(self, c) ==
    the({ IF Len(first.s) <= first.c.inline_size /\ ~is_inline_on(first.c)
          THEN the({ R(second.s, multiline_mode(second.c), first.ok /\ second.ok)
                     : second \in {print_edge(self, inline_mode(first.c))} })
          ELSE first
          : first \in {print_edge(self, c)} })

\* a printer that goes on from the indentation of the text printed last
print_remembering(graph, c) ==
    Graph_print(graph, IF out = <<>> THEN c
                       ELSE [c EXCEPT !.indent = c.indent + c.indent_step])

\* lib.rs: print(graph, ctx)
print(graph, c) == Graph_print(graph, c)

(***************************************************************************)
(* Grammar (grammar/dot.pest): text -> parse tree of pest Pairs.           *)
(* A rule applied to text t at position i returns ok, the position after   *)
(* the match and the Pairs it produced; a silent match produces none.      *)
(***************************************************************************)
Pair(rule, str, inner) == [rule |-> rule, str |-> str, inner |-> inner]

M(ok, pos, pairs) == [ok |-> ok, pos |-> pos, pairs |-> pairs]

Fail(i) == M(FALSE, i, <<>>)

at(t, i) == IF i >= 1 /\ i <= Len(t) THEN t[i] ELSE "EOI"

span(t, i, j) == SubSeq(t, i, j - 1)

\* a rule matched t[i..j) and produced one Pair around the inner Pairs
Match(rule, t, i, j, inner) == M(TRUE, j, <<Pair(rule, span(t, i, j), inner)>>)

lit(t, i, kw) == i + Len(kw) - 1 <= Len(t) /\ SubSeq(t, i, i + Len(kw) - 1) = kw

Letters ==
    {"a", "b", "c", "d", "e", "f", "g", "h", "i", "j", "k", "l", "m", "n", "o",
     "p", "q", "r", "s", "t", "u", "v", "w", "x", "y", "z", "A", "B", "C", "D",
     "E", "F", "G", "H", "I", "J", "K", "L", "M", "N", "O", "P", "Q", "R", "S",
     "T", "U", "V", "W", "X", "Y", "Z", "_"}

Digits == {"0", "1", "2", "3", "4", "5", "6", "7", "8", "9"}

RECURSIVE until(_, _, _)
until(t, i, stop) ==
    IF i > Len(t) \/ lit(t, i, stop) THEN i ELSE until(t, i + 1, stop)

\* WHITESPACE and COMMENT are skipped between tokens
RECURSIVE skip(_, _)
skip(t, i) ==
    IF at(t, i) \in {" ", "\n", "\t", "\r"} THEN skip(t, i + 1)
    ELSE IF lit(t, i, <<"/", "/">>) \/ lit(t, i, <<"#">>)
    THEN the({ skip(t, j) : j \in {until(t, i, NL)} })
    ELSE IF lit(t, i, <<"/", "*">>)
    THEN the({ IF j <= Len(t) THEN skip(t, j + 2) ELSE i
               : j \in {until(t, i + 2, <<"*", "/">>)} })
    ELSE i

\* a rule applied after the skipped whitespace and comments
after_ws(rule(_, _), t, i) == the({ rule(t, p) : p \in {skip(t, i)} })

RECURSIVE run(_, _, _)
run(t, i, class) == IF at(t, i) \in class THEN run(t, i + 1, class) ELSE i

\* the closing quote is the first quote that no backslash escapes
RECURSIVE quote_end(_, _)
quote_end(t, i) ==
    IF i > Len(t) THEN 0
    ELSE IF t[i] = "\\" THEN quote_end(t, i + 2)
    ELSE IF t[i] = QT THEN i
    ELSE quote_end(t, i + 1)

\* the closing bracket balances the opening one
RECURSIVE html_end(_, _, _)
html_end(t, i, depth) ==
    IF i > Len(t) THEN 0
    ELSE IF t[i] = "<" THEN html_end(t, i + 1, depth + 1)
    ELSE IF t[i] = ">" THEN (IF depth = 1 THEN i ELSE html_end(t, i + 1, depth - 1))
    ELSE html_end(t, i + 1, depth)

rule_plain(t, i) ==
    IF at(t, i) \in Letters
    THEN the({ Match("plain", t, i, j, <<>>) : j \in {run(t, i, Letters \cup Digits)} })
    ELSE the({ the({ the({ IF j > d \/ k > j + 1
                           THEN Match("plain", t, i, k, <<>>)
                           ELSE Fail(i)
                           : k \in {IF at(t, j) = "." THEN run(t, j + 1, Digits) ELSE j} })
                     : j \in {run(t, d, Digits)} })
               : d \in {IF at(t, i) = "-" THEN i + 1 ELSE i} })

rule_string_qt(t, i) ==
    IF at(t, i) # QT THEN Fail(i)
    ELSE the({ IF j > 0 THEN Match("string_qt", t, i, j + 1, <<>>) ELSE Fail(i)
               : j \in {quote_end(t, i + 1)} })

rule_html(t, i) ==
    IF at(t, i) # "<" THEN Fail(i)
    ELSE the({ IF j > 0 THEN Match("html", t, i, j + 1, <<>>) ELSE Fail(i)
               : j \in {html_end(t, i, 0)} })

\* id: html | string_qt | plain
rule_id(t, i) ==
    the({ IF m.ok THEN Match("id", t, i, m.pos, m.pairs) ELSE Fail(i)
          : m \in { IF at(t, i) = "<" THEN rule_html(t, i)
                    ELSE IF at(t, i) = QT THEN rule_string_qt(t, i)
                    ELSE rule_plain(t, i) } })

CompassTokens ==
    {<<"n">>, <<"n", "e">>, <<"e">>, <<"s", "e">>, <<"s">>, <<"s", "w">>, <<"w">>,
     <<"n", "w">>, <<"c">>, <<"_">>}

rule_compass(t, i) ==
    the({ IF span(t, i, j) \in CompassTokens THEN Match("compass", t, i, j, <<>>) ELSE Fail(i)
          : j \in {run(t, i, Letters \cup Digits)} })

\* port: ':' id (':' compass)?  |  ':' compass
rule_port(t, i) ==
    IF at(t, i) # ":" THEN Fail(i)
    ELSE the({ IF ~a.ok
               THEN the({ IF c.ok THEN Match("port", t, i, c.pos, c.pairs) ELSE Fail(i)
                          : c \in {after_ws(rule_compass, t, i + 1)} })
               ELSE the({ IF b.ok
                          THEN Match("port", t, i, b.pos, a.pairs \o b.pairs)
                          ELSE Match("port", t, i, a.pos, a.pairs)
                          : b \in { the({ IF at(t, p) = ":"
                                          THEN after_ws(rule_compass, t, p + 1)
                                          ELSE Fail(p)
                                          : p \in {skip(t, a.pos)} }) } })
               : a \in {after_ws(rule_id, t, i + 1)} })

rule_node_id(t, i) ==
    the({ IF ~a.ok THEN Fail(i)
          ELSE the({ IF b.ok
                     THEN Match("node_id", t, i, b.pos, a.pairs \o b.pairs)
                     ELSE Match("node_id", t, i, a.pos, a.pairs)
                     : b \in {after_ws(rule_port, t, a.pos)} })
          : a \in {rule_id(t, i)} })

rule_bare_attr(t, i) ==
    the({ IF ~a.ok THEN Fail(i)
          ELSE the({ IF at(t, e) # "=" THEN Fail(i)
                     ELSE the({ IF b.ok
                                THEN Match("bare_attr", t, i, b.pos, a.pairs \o b.pairs)
                                ELSE Fail(i)
                                : b \in {after_ws(rule_id, t, e + 1)} })
                     : e \in {skip(t, a.pos)} })
          : a \in {rule_id(t, i)} })

\* attr: bare_attr followed by an optional separator
rule_attr(t, i) ==
    the({ IF ~a.ok THEN Fail(i)
          ELSE the({ Match("attr", t, i, IF at(t, p) \in {",", ";"} THEN p + 1 ELSE a.pos,
                           a.pairs)
                     : p \in {skip(t, a.pos)} })
          : a \in {rule_bare_attr(t, i)} })

RECURSIVE rule_attrs(_, _, _)
rule_attrs(t, i, acc) ==
    the({ IF a.ok
          THEN the({ rule_attrs(t, a.pos, next) : next \in {acc \o a.pairs} })
          ELSE M(TRUE, i, acc)
          : a \in {after_ws(rule_attr, t, i)} })

\* attr_list: ('[' attr* ']')+
RECURSIVE rule_groups(_, _, _, _)
rule_groups(t, i, n, acc) ==
    the({ IF at(t, p) # "["
          THEN (IF n > 0 THEN M(TRUE, i, acc) ELSE Fail(i))
          ELSE the({ the({ IF at(t, q) = "]"
                           THEN rule_groups(t, q + 1, n + 1, a.pairs)
                           ELSE IF n > 0 THEN M(TRUE, i, acc) ELSE Fail(i)
                           : q \in {skip(t, a.pos)} })
                     : a \in {rule_attrs(t, p + 1, acc)} })
          : p \in {skip(t, i)} })

rule_attr_list(t, i) ==
    IF at(t, i) # "[" THEN Fail(i)
    ELSE the({ IF a.ok THEN Match("attr_list", t, i, a.pos, a.pairs) ELSE Fail(i)
               : a \in {rule_groups(t, i, 0, <<>>)} })

rule_attr_stmt(t, i) ==
    the({ IF kw = <<>> THEN Fail(i)
          ELSE the({ IF a.ok
                     THEN Match("attr_stmt", t, i, a.pos,
                                <<Pair("attr_mark", kw, <<>>)>> \o a.pairs)
                     ELSE Fail(i)
                     : a \in {after_ws(rule_attr_list, t, i + Len(kw))} })
          : kw \in { IF lit(t, i, kw_graph) THEN kw_graph
                     ELSE IF lit(t, i, kw_node) THEN kw_node
                     ELSE IF lit(t, i, kw_edge) THEN kw_edge ELSE <<>> } })

rule_node(t, i) ==
    the({ IF ~a.ok THEN Fail(i)
          ELSE the({ IF b.ok
                     THEN Match("node", t, i, b.pos, a.pairs \o b.pairs)
                     ELSE Match("node", t, i, a.pos, a.pairs)
                     : b \in {after_ws(rule_attr_list, t, a.pos)} })
          : a \in {rule_node_id(t, i)} })

edge_op(t, i) == lit(t, i, <<"-", ">">>) \/ lit(t, i, <<"-", "-">>)

RECURSIVE rule_subgraph(_, _)
RECURSIVE rule_body(_, _)
RECURSIVE rule_stmts(_, _, _)
RECURSIVE rule_stmt(_, _)
RECURSIVE rule_edge_stmt(_, _)
RECURSIVE rule_edge(_, _)
RECURSIVE rule_edge_tail(_, _, _)
RECURSIVE rule_vertex(_, _)

\* vertex: a subgraph or a node_id
rule_vertex(t, i) ==
    the({ IF m.ok THEN Match("vertex", t, i, m.pos, m.pairs) ELSE Fail(i)
          : m \in { the({ IF a.ok THEN a ELSE rule_node_id(t, i)
                          : a \in {rule_subgraph(t, i)} }) } })

\* (edge_op vertex)*: each step is a Pair holding the vertex
rule_edge_tail(t, i, acc) ==
    the({ IF ~edge_op(t, p) THEN M(TRUE, i, acc)
          ELSE the({ IF v.ok
                     THEN the({ rule_edge_tail(t, v.pos, next)
                                : next \in {Append(acc, Pair("edge_step", span(t, p, v.pos),
                                                             v.pairs))} })
                     ELSE M(TRUE, i, acc)
                     : v \in {after_ws(rule_vertex, t, p + 2)} })
          : p \in {skip(t, i)} })

\* edge: two or more vertices joined by '->' or '--'
rule_edge(t, i) ==
    the({ IF ~h.ok THEN Fail(i)
          ELSE the({ IF Len(tl.pairs) >= 1
                     THEN Match("edge", t, i, tl.pos, h.pairs \o tl.pairs)
                     ELSE Fail(i)
                     : tl \in {rule_edge_tail(t, h.pos, <<>>)} })
          : h \in {rule_vertex(t, i)} })

rule_edge_stmt(t, i) ==
    the({ IF ~a.ok THEN Fail(i)
          ELSE the({ IF b.ok
                     THEN Match("edge_stmt", t, i, b.pos, a.pairs \o b.pairs)
                     ELSE Match("edge_stmt", t, i, a.pos, a.pairs)
                     : b \in {after_ws(rule_attr_list, t, a.pos)} })
          : a \in {rule_edge(t, i)} })

\* subgraph: 'subgraph' id? body
rule_subgraph(t, i) ==
    IF ~lit(t, i, kw_subgraph) THEN Fail(i)
    ELSE the({ the({ the({ IF b.ok
                           THEN Match("subgraph", t, i, b.pos,
                                      (IF a.ok THEN a.pairs ELSE <<>>) \o b.pairs)
                           ELSE Fail(i)
                           : b \in { IF a.ok THEN after_ws(rule_body, t, a.pos)
                                     ELSE rule_body(t, p) } })
                     : a \in {rule_id(t, p)} })
               : p \in {skip(t, i + Len(kw_subgraph))} })

\* what may not follow a node statement: an edge operator or '='
after_node(t, i) == edge_op(t, i) \/ at(t, i) = "="

\* stmt: attr_stmt | subgraph | node | bare_attr | edge_stmt, by lookahead
rule_stmt(t, i) ==
    the({ IF m.ok THEN Match("stmt", t, i, m.pos, m.pairs) ELSE Fail(i)
          : m \in { the({
              IF a.ok THEN a
              ELSE the({
                IF s.ok /\ ~edge_op(t, skip(t, s.pos)) THEN s
                ELSE the({
                  IF n.ok /\ ~after_node(t, skip(t, n.pos)) THEN n
                  ELSE the({ IF b.ok THEN b ELSE rule_edge_stmt(t, i)
                             : b \in {rule_bare_attr(t, i)} })
                  : n \in {IF s.ok THEN Fail(i) ELSE rule_node(t, i)} })
                : s \in {rule_subgraph(t, i)} })
              : a \in {rule_attr_stmt(t, i)} }) } })

\* (stmt ';'?)*
rule_stmts(t, i, acc) ==
    the({ IF ~a.ok THEN M(TRUE, i, acc)
          ELSE the({ rule_stmts(t, IF at(t, p) = ";" THEN p + 1 ELSE a.pos, next)
                     : p \in {skip(t, a.pos)}, next \in {acc \o a.pairs} })
          : a \in {after_ws(rule_stmt, t, i)} })

rule_body(t, i) ==
    IF at(t, i) # "{" THEN Fail(i)
    ELSE the({ the({ IF at(t, q) = "}"
                     THEN Match("body", t, i, q + 1, a.pairs)
                     ELSE Fail(q)
                     : q \in {skip(t, a.pos)} })
               : a \in {rule_stmts(t, i + 1, <<>>)} })

\* graph: 'strict'? ('graph' | 'digraph') id? body
rule_graph(t, i) ==
    the({ the({
      IF kw = <<>> THEN Fail(p)
      ELSE the({ the({ the({
             IF b.ok
             THEN Match("graph", t, i, b.pos,
                        (IF p > i THEN <<Pair("strict", kw_strict, <<>>)>> ELSE <<>>)
                        \o <<Pair("graph_ty", kw, <<>>)>>
                        \o (IF a.ok THEN a.pairs ELSE <<>>) \o b.pairs)
             ELSE Fail(b.pos)
             : b \in { IF a.ok THEN after_ws(rule_body, t, a.pos) ELSE rule_body(t, q) } })
           : a \in {rule_id(t, q)} })
         : q \in {skip(t, p + Len(kw))} })
      : kw \in { IF lit(t, p, kw_digraph) THEN kw_digraph
                 ELSE IF lit(t, p, kw_graph) THEN kw_graph ELSE <<>> } })
    : p \in {IF lit(t, i, kw_strict) THEN skip(t, i + Len(kw_strict)) ELSE i} })

\* file: SOI graph EOI
rule_file(t, i) ==
    the({ IF ~a.ok THEN Fail(a.pos)
          ELSE the({ IF e = Len(t) + 1 THEN Match("file", t, i, e, a.pairs) ELSE Fail(e)
                     : e \in {skip(t, a.pos)} })
          : a \in {after_ws(rule_graph, t, i)} })

\* DotParser::parse(ty, input)
DotParser_parse(ty, input) ==
    IF ty = "file" THEN rule_file(input, 1)
    ELSE IF ty = "id" THEN rule_id(input, 1)
    ELSE IF ty = "node_id" THEN rule_node_id(input, 1)
    ELSE IF ty = "attr_list" THEN rule_attr_list(input, 1)
    ELSE IF ty = "node" THEN rule_node(input, 1)
    ELSE IF ty = "edge_stmt" THEN rule_edge_stmt(input, 1)
    ELSE IF ty = "stmt" THEN rule_stmt(input, 1)
    ELSE rule_body(input, 1)

(***************************************************************************)
(* Parser: the fold of the parse tree into the data model.                 *)
(* A process_ call returns the value v and ok = FALSE when it panics; the  *)
(* calls that may generate an Anonymous id also take the stream rnd of     *)
(* values rand::random will return and give back what is left of it.       *)
(***************************************************************************)
F(v, ok) == [v |-> v, ok |-> ok]

FR(v, ok, rnd) == [v |-> v, ok |-> ok, rnd |-> rnd]

\* impl Display for Id
Id_to_string(id) ==
    IF id.tag = "Html" THEN <<"h", "t", "m", "l", " ">> \o id.v
    ELSE IF id.tag = "Escaped" THEN <<"e", "s", "c", " ">> \o id.v
    ELSE IF id.tag = "Plain" THEN id.v
    ELSE <<"a", "n", "o", "n", " ">> \o id.v

\* id!: the arm taken by the prefix, "" for none
id_macro(prefix, e) ==
    IF prefix = "html" THEN id_html(e) ELSE IF prefix = "esc" THEN id_esc(e) ELSE id_plain(e)

\* attr!: the first arm that matches; ik and iv are the prefixes of the key
\* and of the value, "" for none
attr_macro(ik, k, iv, v) ==
    IF ik # "" /\ iv # "" THEN Attribute(id_macro("", k), id_macro(iv, v))
    ELSE IF ik # "" THEN Attribute(id_macro(ik, k), id_macro("", v))
    ELSE IF iv # "" THEN Attribute(id_macro("", k), id_macro(iv, v))
    ELSE Attribute(id_macro("", k), id_macro("", v))

\* graph!: form is "none" for the arms without statements, "vec" for the
\* arms with a vector and "list" for the arms with a list of statements;
\* id!($id) formats the Id with Display
graph_macro(strict, di, id, form, stmts) ==
    IF ~di THEN Graph("Graph", id, strict, IF form = "none" THEN <<>> ELSE stmts)
    ELSE IF form = "none" THEN Graph("DiGraph", id_macro("", Id_to_string(id)), strict, <<>>)
    ELSE Graph("DiGraph", id, strict, stmts)

\* rule.into_inner().next().unwrap(): callers check has_inner first
down(rule) == rule.inner[1]

has_inner(rule) == Len(rule.inner) >= 1

\* an id stored without its quotes
process_id_unquoted(rule) ==
    IF ~has_inner(rule) THEN F(id_anon, FALSE)
    ELSE IF down(rule).rule = "plain" THEN F(Id("Plain", rule.str), TRUE)
    ELSE IF down(rule).rule = "html" THEN F(Id("Html", rule.str), TRUE)
    ELSE IF down(rule).rule = "string_qt" THEN F(Id("Escaped", trim_matches(rule.str, QT)), TRUE)
    ELSE F(id_anon, FALSE)

process_id(rule) ==
    IF ~has_inner(rule) THEN F(id_anon, FALSE)
    ELSE IF down(rule).rule = "plain" THEN F(Id("Plain", rule.str), TRUE)
    ELSE IF down(rule).rule = "html" THEN F(Id("Html", rule.str), TRUE)
    ELSE IF down(rule).rule = "string_qt" THEN F(Id("Escaped", rule.str), TRUE)
    ELSE F(id_anon, FALSE)

process_bare_attr(rule) ==
    IF Len(rule.inner) < 2 THEN F(Attribute(id_anon, id_anon), FALSE)
    ELSE the({ F(Attribute(key.v, val.v), key.ok /\ val.ok)
               : key \in {process_id(rule.inner[1])}, val \in {process_id(rule.inner[2])} })

process_attr(rule) ==
    IF has_inner(rule) THEN process_bare_attr(down(rule))
    ELSE F(Attribute(id_anon, id_anon), FALSE)

\* while attr_list.peek().is_some() { attrs.push(process_attr(next)) }
RECURSIVE process_attr_list_loop(_, _, _)
process_attr_list_loop(attr_list, i, attrs) ==
    IF i > Len(attr_list) THEN attrs
    ELSE the({ process_attr_list_loop(attr_list, i + 1, next)
               : next \in { F(Append(attrs.v, a.v), attrs.ok /\ a.ok)
                            : a \in {process_attr(attr_list[i])} } })

\* an attribute list without its first attribute
process_attr_list_tail(rule) == process_attr_list_loop(rule.inner, 2, F(<<>>, TRUE))

process_attr_list(rule) == process_attr_list_loop(rule.inner, 1, F(<<>>, TRUE))

\* a port id that is never read as a compass
parse_compass_never(id) == None

parse_compass_manually(id) ==
    IF id.tag = "Plain" /\ id.v \in CompassTokens THEN Some(Id_to_string(id)) ELSE None

process_port(port) ==
    IF Len(port.inner) = 0 THEN F(port_default, FALSE)
    ELSE IF port.inner[1].rule = "compass"
    THEN F(Port(None, Some(port.inner[1].str)), TRUE)
    ELSE IF port.inner[1].rule = "id"
    THEN the({ IF Len(port.inner) >= 2
               THEN F(Port(Some(mb_id_mb_compass.v), Some(port.inner[2].str)),
                      mb_id_mb_compass.ok)
               ELSE the({ IF manual # None
                          THEN F(Port(None, Some(manual[1])), mb_id_mb_compass.ok)
                          ELSE F(Port(Some(mb_id_mb_compass.v), None), mb_id_mb_compass.ok)
                          : manual \in {parse_compass_manually(mb_id_mb_compass.v)} })
               : mb_id_mb_compass \in {process_id(port.inner[1])} })
    ELSE F(port_default, FALSE)

process_node_id(rule) ==
    IF ~has_inner(rule) THEN F(NodeId(id_anon, None), FALSE)
    ELSE the({ IF Len(rule.inner) >= 2
               THEN the({ F(NodeId(id.v, Some(p.v)), id.ok /\ p.ok)
                          : p \in {process_port(rule.inner[2])} })
               ELSE F(NodeId(id.v, None), id.ok)
               : id \in {process_id(rule.inner[1])} })

process_node(rule) ==
    IF ~has_inner(rule) THEN F(Node(NodeId(id_anon, None), <<>>), FALSE)
    ELSE the({ IF Len(rule.inner) >= 2
               THEN the({ F(Node(id.v, a.v), id.ok /\ a.ok)
                          : a \in {process_attr_list(rule.inner[2])} })
               ELSE F(Node(id.v, <<>>), id.ok)
               : id \in {process_node_id(rule.inner[1])} })

\* GraphAttributes::new
GraphAttributes_new(ty, attrs) ==
    IF ty = kw_graph THEN F(GraphAttributes("Graph", attrs), TRUE)
    ELSE IF ty = kw_node THEN F(GraphAttributes("Node", attrs), TRUE)
    ELSE IF ty = kw_edge THEN F(GraphAttributes("Edge", attrs), TRUE)
    ELSE F(GraphAttributes("Graph", attrs), FALSE)

process_attr_stmt(rule) ==
    IF Len(rule.inner) < 2 THEN F(GraphAttributes("Graph", <<>>), FALSE)
    ELSE the({ the({ F(ga.v, attrs.ok /\ ga.ok)
                     : ga \in {GraphAttributes_new(rule.inner[1].str, attrs.v)} })
               : attrs \in {process_attr_list(rule.inner[2])} })

RECURSIVE process_subgraph(_, _)
RECURSIVE process_body_loop(_, _, _)
RECURSIVE process_stmt(_, _)
RECURSIVE process_vertex(_, _)
RECURSIVE process_edge_loop(_, _, _)
RECURSIVE process_edge_stmt(_, _)

\* rand::random::<usize>().to_string()
random(rnd) == IF Len(rnd) >= 1 THEN rnd[1] ELSE <<"0">>

random_rest(rnd) == IF Len(rnd) >= 1 THEN Tail(rnd) ELSE rnd

\* while body_r.peek().is_some() { stmts.push(process_stmt(next)) }
process_body_loop(body_r, i, stmts) ==
    IF i > Len(body_r) THEN stmts
    ELSE the({ process_body_loop(body_r, i + 1, next)
               : next \in { FR(Append(stmts.v, st.v), stmts.ok /\ st.ok, st.rnd)
                            : st \in {process_stmt(body_r[i], stmts.rnd)} } })

\* a body folded from its last statement to its first
process_body_reversed(rule, rnd) ==
    process_body_loop([i \in 1..Len(rule.inner) |-> rule.inner[Len(rule.inner) + 1 - i]],
                      1, FR(<<>>, TRUE, rnd))

process_body(rule, rnd) == process_body_loop(rule.inner, 1, FR(<<>>, TRUE, rnd))

\* the id of a graph or subgraph whose next Pair is r: the id Pair, or else
\* Id::Anonymous(rand::random::<usize>().to_string())
id_or_anonymous(r, rnd) ==
    IF r.rule = "id"
    THEN the({ FR(id.v, id.ok, rnd) : id \in {process_id(r)} })
    ELSE FR(Id("Anonymous", random(rnd)), TRUE, random_rest(rnd))

process_subgraph(rule, rnd) ==
    IF ~has_inner(rule) THEN FR(Subgraph(id_anon, <<>>), FALSE, rnd)
    ELSE the({ IF rule.inner[1].rule = "id" /\ Len(rule.inner) < 2
               THEN FR(Subgraph(id.v, <<>>), FALSE, id.rnd)
               ELSE the({ FR(Subgraph(id.v, stmts.v), id.ok /\ stmts.ok, stmts.rnd)
                          : stmts \in {process_body(
                                rule.inner[IF rule.inner[1].rule = "id" THEN 2 ELSE 1],
                                id.rnd)} })
               : id \in {id_or_anonymous(rule.inner[1], rnd)} })

process_vertex(rule, rnd) ==
    IF ~has_inner(rule) THEN FR(VertexN(NodeId(id_anon, None)), FALSE, rnd)
    ELSE IF down(rule).rule = "node_id"
    THEN the({ FR(VertexN(n.v), n.ok, rnd) : n \in {process_node_id(down(rule))} })
    ELSE IF down(rule).rule = "subgraph"
    THEN the({ FR(VertexS(sg.v), sg.ok, sg.rnd) : sg \in {process_subgraph(down(rule), rnd)} })
    ELSE FR(VertexN(NodeId(id_anon, None)), FALSE, rnd)

\* while edge_r.peek().is_some() { chain.push(process_vertex(down(next))) }
process_edge_loop(edge_r, i, chain) ==
    IF i > Len(edge_r) THEN chain
    ELSE IF ~has_inner(edge_r[i]) THEN FR(chain.v, FALSE, chain.rnd)
    ELSE the({ process_edge_loop(edge_r, i + 1, next)
               : next \in { FR(Append(chain.v, v.v), chain.ok /\ v.ok, v.rnd)
                            : v \in {process_vertex(down(edge_r[i]), chain.rnd)} } })

process_edge(rule, rnd) ==
    IF ~has_inner(rule) THEN FR(<<>>, FALSE, rnd)
    ELSE the({ process_edge_loop(rule.inner, 2, first)
               : first \in { FR(<<h.v>>, h.ok, h.rnd)
                             : h \in {process_vertex(rule.inner[1], rnd)} } })

\* an edge type that is a Chain for every number of vertices
edge_ty_chain(edges) == F(EdgeTyChain(edges), Len(edges) >= 2)

\* let ty = if edges.len() > 2 { Chain(edges) } else { Pair(next().unwrap(), next().unwrap()) }
edge_ty(edges) ==
    IF Len(edges) > 2 THEN F(EdgeTyChain(edges), TRUE)
    ELSE IF Len(edges) = 2 THEN F(EdgeTyPair(edges[1], edges[2]), TRUE)
    ELSE F(EdgeTyChain(edges), FALSE)

process_edge_stmt(rule, rnd) ==
    IF ~has_inner(rule) THEN FR(Edge(EdgeTyChain(<<>>), <<>>), FALSE, rnd)
    ELSE the({ the({ FR(Edge(ty.v, a.v), edges.ok /\ ty.ok /\ a.ok, edges.rnd)
                     : ty \in {edge_ty(edges.v)},
                       a \in { IF Len(rule.inner) >= 2
                               THEN process_attr_list(rule.inner[2])
                               ELSE F(<<>>, TRUE) } })
               : edges \in {process_edge(rule.inner[1], rnd)} })

process_stmt(rule, rnd) ==
    IF ~has_inner(rule) THEN FR(StmtAttribute(Attribute(id_anon, id_anon)), FALSE, rnd)
    ELSE IF down(rule).rule = "attr_stmt"
    THEN the({ FR(StmtGAttribute(e.v), e.ok, rnd) : e \in {process_attr_stmt(down(rule))} })
    ELSE IF down(rule).rule = "subgraph"
    THEN the({ FR(StmtSubgraph(e.v), e.ok, e.rnd) : e \in {process_subgraph(down(rule), rnd)} })
    ELSE IF down(rule).rule = "node"
    THEN the({ FR(StmtNode(e.v), e.ok, rnd) : e \in {process_node(down(rule))} })
    ELSE IF down(rule).rule = "bare_attr"
    THEN the({ FR(StmtAttribute(e.v), e.ok, rnd) : e \in {process_bare_attr(down(rule))} })
    ELSE IF down(rule).rule = "edge_stmt"
    THEN the({ FR(StmtEdge(e.v), e.ok, e.rnd) : e \in {process_edge_stmt(down(rule), rnd)} })
    ELSE FR(StmtAttribute(Attribute(id_anon, id_anon)), FALSE, rnd)

\* graph_r after the optional strict Pair and the graph type Pair
graph_rest(rule) ==
    SubSeq(rule.inner, IF rule.inner[1].rule = "strict" THEN 3 ELSE 2, Len(rule.inner))

process_graph(rule, rnd) ==
    IF ~has_inner(rule) \/ Len(graph_rest(rule)) = 0
    THEN FR(Graph("Graph", id_anon, FALSE, <<>>), FALSE, rnd)
    ELSE the({ the({
           IF graph_r[1].rule = "id" /\ Len(graph_r) < 2
           THEN FR(Graph("Graph", id.v, strict, <<>>), FALSE, id.rnd)
           ELSE the({ FR(Graph(IF is_di THEN "DiGraph" ELSE "Graph", id.v, strict, stmts.v),
                         id.ok /\ stmts.ok, stmts.rnd)
                      : stmts \in {process_body(
                            graph_r[IF graph_r[1].rule = "id" THEN 2 ELSE 1], id.rnd)} })
           : id \in {id_or_anonymous(graph_r[1], rnd)} })
         : graph_r \in {graph_rest(rule)},
           strict \in {rule.inner[1].rule = "strict"},
           is_di \in {rule.inner[IF rule.inner[1].rule = "strict" THEN 2 ELSE 1].str
                      = kw_digraph} })

do_parse(input, ty) == DotParser_parse(ty, input)

\* pest::error::Error::to_string: the position and what was expected
RECURSIVE usize_to_string(_)
usize_to_string(n) ==
    IF n < 10 THEN <<<<"0", "1", "2", "3", "4", "5", "6", "7", "8", "9">>[n + 1]>>
    ELSE usize_to_string(n \div 10) \o usize_to_string(n % 10)

Error_to_string(m) == <<" ", "-", "-", ">", " ", "1", ":">> \o usize_to_string(m.pos)

Ok(gr) == [tag |-> "Ok", graph |-> <<gr>>, msg |-> <<>>]

Err(msg) == [tag |-> "Err", graph |-> <<>>, msg |-> msg]

Panic == [tag |-> "Panic", graph |-> <<>>, msg |-> <<>>]

NoResult == [tag |-> "None", graph |-> <<>>, msg |-> <<>>]

\* a parse that unwraps the result of the grammar
parse_unwrap(dot, rnd) ==
    the({ IF ~m.ok \/ ~has_inner(m.pairs[1]) THEN Panic
          ELSE the({ IF gr.ok THEN Ok(gr.v) ELSE Panic
                     : gr \in {process_graph(down(m.pairs[1]), rnd)} })
          : m \in {do_parse(dot, "file")} })

parse(dot, rnd) ==
    the({ IF ~m.ok THEN Err(Error_to_string(m))
          ELSE IF ~has_inner(m.pairs[1]) THEN Panic
          ELSE the({ IF gr.ok THEN Ok(gr.v) ELSE Panic
                     : gr \in {process_graph(down(m.pairs[1]), rnd)} })
          : m \in {do_parse(dot, "file")} })

\* the number of rand::random calls the fold of a parse tree makes: one for
\* each graph or subgraph Pair that has no id
RECURSIVE count_random(_)
RECURSIVE count_random_seq(_, _)
count_random(rule) ==
    (IF rule.rule \in {"graph", "subgraph"}
        /\ \A i \in 1..Len(rule.inner) : rule.inner[i].rule # "id"
     THEN 1 ELSE 0) + count_random_seq(rule.inner, 1)

count_random_seq(inner, i) ==
    IF i > Len(inner) THEN 0 ELSE count_random(inner[i]) + count_random_seq(inner, i + 1)

(***************************************************************************)
(* Inputs.  Ids, node ids and statements the operations are applied to.    *)
(***************************************************************************)
MaxStmts == 2

MaxTokens == 4

RandTokens == {<<"7">>, <<"9">>}

RECURSIVE Streams(_)
Streams(n) ==
    IF n <= 0 THEN {<<>>}
    ELSE {<<x>> \o s : x \in RandTokens, s \in Streams(n - 1)}

id_a == id_plain(<<"a">>)

id_b == id_plain(<<"b">>)

id_n == id_plain(<<"n">>)

id_p == id_plain(<<"p">>)

id_t == id_plain(<<"t">>)

id_qa == id_esc(<<"a">>)

na == NodeId(id_a, None)

nb == NodeId(id_b, None)

st_a == StmtNode(Node(na, <<>>))

st_b == StmtNode(Node(nb, <<>>))

st_ab == StmtEdge(edge_macro(<<VertexN(na), VertexN(nb)>>, <<>>))

sg_two == Subgraph(id_b, <<st_a, st_b>>)

sg_edge == Subgraph(id_a, <<st_ab>>)

StmtPool ==
    { st_a,
      StmtNode(Node(NodeId(id_b, Some(Port(Some(id_p), Some(<<"n">>)))), <<Attribute(id_a, id_b)>>)),
      StmtNode(Node(NodeId(id_a, Some(Port(Some(id_p), None))), <<>>)),
      StmtNode(Node(NodeId(id_a, Some(Port(Some(id_n), None))), <<>>)),
      StmtNode(Node(NodeId(id_qa, Some(Port(None, Some(<<"n">>)))),
                    <<Attribute(id_a, id_b), Attribute(id_b, id_qa)>>)),
      StmtAttribute(Attribute(id_a, id_b)),
      StmtGAttribute(GraphAttributes("Node", <<Attribute(id_a, id_qa)>>)),
      st_ab,
      StmtEdge(edge_macro(<<VertexN(na), VertexN(nb), VertexN(na)>>, <<Attribute(id_a, id_b)>>)),
      StmtEdge(Edge(EdgeTyChain(<<VertexN(na), VertexN(nb)>>), <<>>)),
      StmtSubgraph(sg_two),
      StmtSubgraph(Subgraph(id_b, <<StmtSubgraph(sg_edge), st_a>>)),
      StmtSubgraph(Subgraph(id_anon, <<st_a>>)),
      StmtEdge(edge_macro(<<VertexN(na), VertexS(sg_edge)>>, <<>>)),
      StmtEdge(edge_macro(<<VertexN(na), VertexS(sg_two)>>, <<>>)),
      StmtEdge(edge_macro(<<VertexS(sg_two), VertexS(sg_two), VertexS(sg_two), VertexS(sg_two)>>,
                          <<>>)) }

EmptyGraphs ==
    {Graph(tag, id_t, strict, <<>>) : tag \in {"Graph", "DiGraph"}, strict \in BOOLEAN}

\* statements for the printer configurations: ids x, y, w; an id long enough
\* to put an edge's multiline rendering exactly at, and one character over,
\* the default inline size; a node id with the default port!()
id_id == id_plain(<<"i", "d">>)

CfgGraphs == {Graph("Graph", id_t, FALSE, <<>>), Graph("DiGraph", id_id, TRUE, <<>>)}

id_x == id_plain(<<"x">>)

id_y == id_plain(<<"y">>)

id_w == id_plain(<<"w">>)

st_x == StmtNode(Node(NodeId(id_x, None), <<>>))

st_y == StmtNode(Node(NodeId(id_y, None), <<>>))

\* "subgraph w {\n    x\n  }" at indent 2 with step 2 takes 22 characters and
\* " -- " takes 4
long_edge(extra) ==
    StmtEdge(edge_macro(
        <<VertexN(NodeId(id_plain(repeat("z", DefaultInlineSize - 22 - 4 + extra)), None)),
          VertexS(Subgraph(id_w, <<st_x>>))>>, <<>>))

CfgPool ==
    { st_x,
      StmtNode(Node(NodeId(id_y, None), <<Attribute(id_a, id_b), Attribute(id_b, id_a)>>)),
      StmtEdge(edge_macro(<<VertexN(NodeId(id_x, None)),
                            VertexS(Subgraph(id_w, <<st_x, st_y>>))>>, <<>>)),
      StmtSubgraph(Subgraph(id_w, <<st_y, st_x>>)),
      StmtSubgraph(Subgraph(id_w, <<StmtSubgraph(Subgraph(id_y, <<st_x>>)), st_y>>)),
      StmtNode(Node(NodeId(id_x, Some(port_default)), <<>>)),
      long_edge(0),
      long_edge(1) }

\* text typed token by token, for each grammar rule the parser is entered at
sp == <<" ">>

FileTokens ==
    { kw_strict,
      kw_graph \o <<" ", "t", " ", "{">>,
      kw_digraph \o <<" ", "{">>,
      <<"x", " ", "-", ">", " ", "y">>,
      <<"}">>,
      <<"[">> }

BodyTokens ==
    { <<"{">>,
      <<"}">>,
      <<"x">>,
      <<"y", ";">>,
      <<"{", " ">> \o kw_subgraph \o <<" ", "w", " ", "{">>,
      <<"}", " ", "x", " ", "}">> }

EdgeTokens ==
    { <<"x">>,
      <<"-", ">", " ", "y">>,
      <<"-", "-", " ">> \o kw_subgraph \o <<" ", "w", " ", "{", "y", " ", "-", ">", " ", "x", "}">>,
      <<"[", "a", "=", "b", "]">>,
      <<"-", ">">> }

NodeIdTokens ==
    { <<"x">>,
      <<":", "n">>,
      <<":", "x">>,
      <<":", QT, "n", QT>>,
      <<":", "s", "e">>,
      <<":", "_">> }

AttrTokens ==
    { <<"[", "a", "=", "1", ",", "b", "=", "c">>,
      <<"]", "[">>,
      <<",">>,
      <<"d", "=", "2">>,
      <<"]">>,
      <<"[">> }

Entries == {"file", "body", "edge_stmt", "node_id", "attr_list"}

Alphabet(e) ==
    IF e = "file" THEN FileTokens
    ELSE IF e = "body" THEN BodyTokens
    ELSE IF e = "edge_stmt" THEN EdgeTokens
    ELSE IF e = "node_id" THEN NodeIdTokens
    ELSE AttrTokens

\* ids of every variant over the same strings, attributes and attribute
\* lists the data model's operations are applied to
IdPool ==
    {Id(tag, e) : tag \in {"Plain", "Escaped", "Html", "Anonymous"},
                  e \in {<<"a">>, <<"b">>, <<QT, "a", QT>>}}

AttrPool ==
    { Attribute(id_a, id_b),
      Attribute(id_b, id_a),
      Attribute(id_a, id_qa),
      Attribute(Id("Escaped", <<"a">>), id_b),
      Attribute(Id("Anonymous", <<"a">>), id_b) }

AttrLists ==
    { <<>>,
      <<Attribute(id_a, id_b)>>,
      <<Attribute(id_a, id_b), Attribute(id_b, id_a)>>,
      <<Attribute(id_b, id_a), Attribute(id_a, id_qa), Attribute(id_a, id_b)>> }

\* node id texts: every kind of id, with and without a port
IdTexts ==
    { <<"a">>,
      <<QT, "a", QT>>,
      <<"<", "b", ">">>,
      <<"a", ":", "n">>,
      <<"a", ":", "b">>,
      <<"a", ":", QT, "n", QT>>,
      <<QT, "a", QT, ":", QT, "b", QT, ":", "n", "e">>,
      <<"<", "b", ">", ":", "<", "a", ">", ":", "_">> }

\* the prefixes of id! and attr!: none, esc, html
Prefixes == {"", "esc", "html"}

MaxIndent == 4

\* values printed one after the other on one context
MaxPrints == 2

seq_stmts ==
    <<StmtEdge(edge_macro(<<VertexN(NodeId(id_x, None)), VertexN(NodeId(id_y, None))>>, <<>>)),
      StmtSubgraph(Subgraph(id_w, <<st_x>>))>>

seq_edge ==
    edge_macro(<<VertexN(NodeId(id_x, None)), VertexS(Subgraph(id_w, <<st_x, st_y>>))>>,
               <<Attribute(id_a, id_b), Attribute(id_b, id_a)>>)

GraphSeqPool == {Graph("Graph", id_t, FALSE, seq_stmts), Graph("DiGraph", id_t, FALSE, seq_stmts)}

SubgraphSeqPool == {Subgraph(id_w, <<StmtEdge(seq_edge), st_y>>)}

StmtSeqPool ==
    {StmtNode(Node(NodeId(id_y, None), <<Attribute(id_a, id_b), Attribute(id_b, id_a)>>))}

EdgeSeqPool == {seq_edge}

\* what the renderer process can give back: exit codes (none when it was
\* killed by a signal), standard output and standard error
ExitCodes == {None, Some(0), Some(1), Some(2)}

Stdouts == {<<>>, <<"s", "v", "g">>}

Stderrs == {<<>>, <<"E", "r", "r">>}

\* the texts of std::io::Error of a failed file creation, write and spawn
io_error(what) == <<"i", "o", ":">> \o what

(***************************************************************************)
(* Spec: a graph is built with add_stmt, printed with the default context  *)
(* and the text is parsed back.                                            *)
(***************************************************************************)
Init ==
    /\ ctx = PrinterContext_default
    /\ other = ctx
    /\ g \in EmptyGraphs
    /\ item = <<>>
    /\ src = <<>>
    /\ out = <<>>
    /\ res = NoResult
    /\ op = "new"
    /\ entry = "file"

AddStmt ==
    /\ op \in {"new", "add_stmt"}
    /\ Len(g.stmts) < MaxStmts
    /\ \E st \in StmtPool : g' = add_stmt(g, st)
    /\ op' = "add_stmt"
    /\ UNCHANGED <<ctx, src, out, res, entry, item, other>>

\* lib.rs print / Graph::print on the context
PrintGraph ==
    /\ op \in {"new", "add_stmt", "config"}
    /\ \E r \in {print(g, ctx)} :
           /\ ctx' = r.c
           /\ out' = IF r.ok THEN r.s ELSE <<>>
           /\ res' = IF r.ok THEN NoResult ELSE Panic
    /\ op' = "print"
    /\ UNCHANGED <<g, src, entry, item, other>>

\* lib.rs parse on the printed text
ParseOut ==
    /\ op = "print"
    /\ res.tag # "Panic"
    /\ \E m \in {do_parse(out, "file")} :
           \E rnd \in Streams(IF m.ok THEN count_random(m.pairs[1]) ELSE 0) :
               res' = parse(out, rnd)
    /\ op' = "parse"
    /\ UNCHANGED <<ctx, g, src, out, entry, item, other>>

Next == AddStmt \/ PrintGraph \/ ParseOut

Spec == Init /\ [][Next]_vars

(***************************************************************************)
(* SpecCfg: the context is made by default() or new(), configured by the   *)
(* builder methods, then a graph is built, printed and parsed back.  A     *)
(* second fresh context, other, is configured by the same calls and is not *)
(* printed with.                                                           *)
(***************************************************************************)
InitCfg ==
    /\ ctx \in {PrinterContext_default,
                PrinterContext_new(FALSE, DefaultIndentStep, NL, DefaultInlineSize)}
    /\ other = ctx
    /\ g \in CfgGraphs
    /\ item = <<>>
    /\ src = <<>>
    /\ out = <<>>
    /\ res = NoResult
    /\ op = "new"
    /\ entry = "file"

AlwaysInline ==
    /\ op \in {"new", "config"}
    /\ ctx' = always_inline(ctx)
    /\ other' = always_inline(other)
    /\ op' = "config"
    /\ UNCHANGED <<g, src, out, res, entry, item>>

WithSemi ==
    /\ op \in {"new", "config"}
    /\ ctx' = with_semi(ctx)
    /\ other' = with_semi(other)
    /\ op' = "config"
    /\ UNCHANGED <<g, src, out, res, entry, item>>

WithNodeMultAttr ==
    /\ op \in {"new", "config"}
    /\ ctx' = with_node_mult_attr_s_l(ctx)
    /\ other' = with_node_mult_attr_s_l(other)
    /\ op' = "config"
    /\ UNCHANGED <<g, src, out, res, entry, item>>

WithIndentStep ==
    /\ op \in {"new", "config"}
    /\ \E step \in {0, 4} :
           /\ ctx' = with_indent_step(ctx, step)
           /\ other' = with_indent_step(other, step)
    /\ op' = "config"
    /\ UNCHANGED <<g, src, out, res, entry, item>>

WithLineSep ==
    /\ op \in {"new", "config"}
    /\ \E sep \in {<<>>, sp} :
           /\ ctx' = with_line_sep(ctx, sep)
           /\ other' = with_line_sep(other, sep)
    /\ op' = "config"
    /\ UNCHANGED <<g, src, out, res, entry, item>>

WithInlineSize ==
    /\ op \in {"new", "config"}
    /\ \E inline_s \in {10} :
           /\ ctx' = with_inline_size(ctx, inline_s)
           /\ other' = with_inline_size(other, inline_s)
    /\ op' = "config"
    /\ UNCHANGED <<g, src, out, res, entry, item>>

AddStmtCfg ==
    /\ op \in {"new", "config", "add_stmt"}
    /\ Len(g.stmts) < MaxStmts
    /\ \E st \in CfgPool : g' = add_stmt(g, st)
    /\ op' = "add_stmt"
    /\ UNCHANGED <<ctx, src, out, res, entry, item, other>>

NextCfg ==
    \/ AlwaysInline \/ WithSemi \/ WithNodeMultAttr \/ WithIndentStep \/ WithLineSep
    \/ WithInlineSize \/ AddStmtCfg \/ PrintGraph \/ ParseOut

SpecCfg == InitCfg /\ [][NextCfg]_vars

(***************************************************************************)
(* SpecParse: a text is typed token by token, the parser is entered at a   *)
(* grammar rule and the parse tree is folded by that rule's process_       *)
(* function as the tests of parser.rs do; a parsed graph or body is        *)
(* printed again with the default context.                                 *)
(***************************************************************************)
InitParse ==
    /\ ctx = PrinterContext_default
    /\ other = ctx
    /\ g = Graph("Graph", id_t, FALSE, <<>>)
    /\ item = <<>>
    /\ src = <<>>
    /\ out = <<>>
    /\ res = NoResult
    /\ op = "new"
    /\ entry \in Entries

Type ==
    /\ op \in {"new", "type"}
    /\ Len(src) < MaxTokens
    /\ \E tok \in Alphabet(entry) : src' = Append(src, tok)
    /\ op' = "type"
    /\ UNCHANGED <<ctx, g, out, res, entry, item, other>>

\* the value of a fold, or the panic it ended in
Result(r) == IF r.ok THEN Ok(r.v) ELSE Panic

Parsed(r) ==
    /\ res' = r
    /\ op' = "parse"
    /\ UNCHANGED <<ctx, g, src, out, entry, item, other>>

ParseFile ==
    /\ op = "type"
    /\ entry = "file"
    /\ \E text \in {join(src, sp)} : \E m \in {do_parse(text, "file")} :
           \E rnd \in Streams(IF m.ok THEN count_random(m.pairs[1]) ELSE 0) :
               Parsed(parse(text, rnd))

ParseBody ==
    /\ op = "type"
    /\ entry = "body"
    /\ \E text \in {join(src, sp)} : \E m \in {do_parse(text, "body")} :
           IF ~m.ok THEN Parsed(Err(Error_to_string(m)))
           ELSE \E rnd \in Streams(count_random(m.pairs[1])) :
                    \E r \in {process_body(m.pairs[1], rnd)} : Parsed(Result(r))

ParseEdgeStmt ==
    /\ op = "type"
    /\ entry = "edge_stmt"
    /\ \E text \in {join(src, sp)} : \E m \in {do_parse(text, "edge_stmt")} :
           IF ~m.ok THEN Parsed(Err(Error_to_string(m)))
           ELSE \E rnd \in Streams(count_random(m.pairs[1])) :
                    \E r \in {process_edge_stmt(m.pairs[1], rnd)} : Parsed(Result(r))

ParseNodeId ==
    /\ op = "type"
    /\ entry = "node_id"
    /\ \E text \in {join(src, sp)} : \E m \in {do_parse(text, "node_id")} :
           IF ~m.ok THEN Parsed(Err(Error_to_string(m)))
           ELSE \E r \in {process_node_id(m.pairs[1])} : Parsed(Result(r))

ParseAttrList ==
    /\ op = "type"
    /\ entry = "attr_list"
    /\ \E text \in {join(src, sp)} : \E m \in {do_parse(text, "attr_list")} :
           IF ~m.ok THEN Parsed(Err(Error_to_string(m)))
           ELSE \E r \in {process_attr_list(m.pairs[1])} : Parsed(Result(r))

PrintParsed ==
    /\ op = "parse"
    /\ res.tag = "Ok"
    /\ entry \in {"file", "body"}
    /\ \E r \in { IF entry = "file" THEN print(res.graph[1], ctx)
                  ELSE VecStmt_print(res.graph[1], ctx) } :
           /\ ctx' = r.c
           /\ out' = IF r.ok THEN r.s ELSE <<>>
           /\ res' = IF r.ok THEN res ELSE Panic
    /\ op' = "print"
    /\ UNCHANGED <<g, src, entry, item, other>>

NextParse ==
    \/ Type \/ ParseFile \/ ParseBody \/ ParseEdgeStmt \/ ParseNodeId \/ ParseAttrList
    \/ PrintParsed

SpecParse == InitParse /\ [][NextParse]_vars

(***************************************************************************)
(* SpecData: operations of the data model and of the printer on its parts: *)
(* an Id is displayed, two Ids are compared, an Attribute and a            *)
(* Vec<Attribute> are printed on a context that was configured and whose   *)
(* indent was grown as on entering a body.                                 *)
(***************************************************************************)
InitData ==
    /\ ctx = PrinterContext_default
    /\ other = ctx
    /\ g = Graph("Graph", id_t, FALSE, <<>>)
    /\ item = <<>>
    /\ src = <<>>
    /\ out = <<>>
    /\ res = NoResult
    /\ op = "new"
    /\ entry = "file"

WithAttrValuePrinter ==
    /\ op \in {"new", "config"}
    /\ \E attr_id \in {id_a, Id("Escaped", <<"a">>)}, fmt \in {"stars", "block"} :
           /\ ctx' = with_attr_value_printer(ctx, attr_id, fmt)
           /\ other' = with_attr_value_printer(other, attr_id, fmt)
    /\ op' = "config"
    /\ UNCHANGED <<g, src, out, res, entry, item>>

\* ctx.indent_grow() of Graph::print and Subgraph::print
IndentGrow ==
    /\ op \in {"new", "config"}
    /\ ctx.indent + ctx.indent_step <= MaxIndent
    /\ ctx' = indent_grow(ctx)
    /\ other' = indent_grow(other)
    /\ op' = "config"
    /\ UNCHANGED <<g, src, out, res, entry, item>>

\* id.to_string()
DisplayId ==
    /\ op \in {"new", "config"}
    /\ \E id \in IdPool : item' = id /\ out' = Id_to_string(id)
    /\ op' = "display"
    /\ UNCHANGED <<ctx, other, g, src, res, entry>>

\* a == b on two Ids
EqIds ==
    /\ op \in {"new", "config"}
    /\ \E a \in IdPool, b \in IdPool : item' = <<a, b>> /\ res' = Ok(Id_eq(a, b))
    /\ op' = "eq"
    /\ UNCHANGED <<ctx, other, g, src, out, entry>>

PrintAttribute ==
    /\ op \in {"new", "config"}
    /\ \E a \in AttrPool : item' = a /\ out' = Attribute_print(a, ctx)
    /\ op' = "print_attribute"
    /\ UNCHANGED <<ctx, other, g, src, res, entry>>

PrintAttributes ==
    /\ op \in {"new", "config"}
    /\ \E attrs \in AttrLists : \E r \in {VecAttribute_print(attrs, ctx)} :
           /\ item' = attrs
           /\ ctx' = r.c
           /\ out' = IF r.ok THEN r.s ELSE <<>>
           /\ res' = IF r.ok THEN NoResult ELSE Panic
    /\ op' = "print_attributes"
    /\ UNCHANGED <<other, g, src, entry>>

\* process_node_id on do_parse(.., Rule::node_id), and NodeId::print on the
\* value
ParseId ==
    /\ op \in {"new", "config"}
    /\ \E t \in IdTexts : \E m \in {do_parse(t, "node_id")} :
           \E r \in { IF m.ok THEN process_node_id(m.pairs[1])
                      ELSE F(NodeId(id_anon, None), FALSE) } :
               \E p \in {NodeId_print(r.v, ctx)} :
                   /\ item' = t
                   /\ res' = IF ~m.ok THEN Err(Error_to_string(m))
                             ELSE IF r.ok /\ p.ok THEN Ok(r.v) ELSE Panic
                   /\ out' = IF p.ok THEN p.s ELSE <<>>
    /\ op' = "parse_id"
    /\ UNCHANGED <<ctx, other, g, src, entry>>

\* attr!(ik k, iv v)
BuildAttr ==
    /\ op = "new"
    /\ \E ik \in Prefixes, iv \in Prefixes, k \in {<<"a">>, <<"b">>}, v \in {<<"1">>} :
           /\ item' = <<ik, k, iv, v>>
           /\ res' = Ok(attr_macro(ik, k, iv, v))
    /\ op' = "attr"
    /\ UNCHANGED <<ctx, other, g, src, out, entry>>

\* graph!(strict di id ...)
BuildGraph ==
    /\ op = "new"
    /\ \E strict \in BOOLEAN, di \in BOOLEAN, id \in IdPool, form \in {"none", "vec", "list"} :
           /\ item' = [strict |-> strict, di |-> di, id |-> id, form |-> form]
           /\ g' = graph_macro(strict, di, id, form, <<st_a>>)
    /\ op' = "graph"
    /\ UNCHANGED <<ctx, other, src, out, res, entry>>

NextData ==
    \/ WithNodeMultAttr \/ WithIndentStep \/ WithLineSep \/ WithAttrValuePrinter
    \/ IndentGrow \/ DisplayId \/ EqIds \/ PrintAttribute \/ PrintAttributes
    \/ ParseId \/ BuildAttr \/ BuildGraph

SpecData == InitData /\ [][NextData]_vars

(***************************************************************************)
(* SpecSeq: one context is configured and printed with several times, one  *)
(* call after the other; item is the record of the print calls made: the   *)
(* value, the text, and the context at entry and at exit of the call.      *)
(***************************************************************************)
InitSeq ==
    /\ ctx \in {PrinterContext_default,
                PrinterContext_new(FALSE, DefaultIndentStep, NL, DefaultInlineSize)}
    /\ other = ctx
    /\ g = Graph("Graph", id_t, FALSE, <<>>)
    /\ item = <<>>
    /\ src = <<>>
    /\ out = <<>>
    /\ res = NoResult
    /\ op = "new"
    /\ entry = "file"

\* a builder call on the context, before or between the print calls
ConfigureSeq ==
    /\ Len(item) < MaxPrints
    /\ res.tag # "Panic"
    /\ \E c \in {always_inline(ctx), with_indent_step(ctx, 4), with_line_sep(ctx, sp),
                  with_node_mult_attr_s_l(ctx)} : ctx' = c
    /\ op' = "config"
    /\ UNCHANGED <<other, g, item, src, out, res, entry>>

Printed(kind, value, r) ==
    /\ item' = Append(item, [kind |-> kind, value |-> value, text |-> r.s,
                              at_entry |-> ctx, at_exit |-> r.c, ok |-> r.ok])
    /\ other' = ctx
    /\ ctx' = r.c
    /\ out' = IF r.ok THEN r.s ELSE <<>>
    /\ res' = IF r.ok THEN NoResult ELSE Panic
    /\ op' = "print"
    /\ UNCHANGED <<g, src, entry>>

PrintGraphSeq ==
    /\ Len(item) < MaxPrints
    /\ res.tag # "Panic"
    /\ \E value \in GraphSeqPool : \E r \in {Graph_print(value, ctx)} :
           Printed("Graph", value, r)

PrintSubgraphSeq ==
    /\ Len(item) < MaxPrints
    /\ res.tag # "Panic"
    /\ \E value \in SubgraphSeqPool : \E r \in {Subgraph_print(value, ctx)} :
           Printed("Subgraph", value, r)

PrintStmtSeq ==
    /\ Len(item) < MaxPrints
    /\ res.tag # "Panic"
    /\ \E value \in StmtSeqPool : \E r \in {Stmt_print(value, ctx)} :
           Printed("Stmt", value, r)

PrintEdgeSeq ==
    /\ Len(item) < MaxPrints
    /\ res.tag # "Panic"
    /\ \E value \in EdgeSeqPool : \E r \in {Edge_print(value, ctx)} :
           Printed("Edge", value, r)

PrintAttributesSeq ==
    /\ Len(item) < MaxPrints
    /\ res.tag # "Panic"
    /\ \E value \in AttrLists : \E r \in {VecAttribute_print(value, ctx)} :
           Printed("Attributes", value, r)

NextSeq ==
    \/ ConfigureSeq \/ PrintGraphSeq \/ PrintSubgraphSeq \/ PrintStmtSeq \/ PrintEdgeSeq
    \/ PrintAttributesSeq

SpecSeq == InitSeq /\ [][NextSeq]_vars

(***************************************************************************)
(* SpecOrder: two default contexts get always_inline() and with_line_sep() *)
(* in the two orders, ctx always_inline() first and other with_line_sep()  *)
(* first, and the graph is printed with both; item is the text of other.   *)
(***************************************************************************)
InitOrder ==
    /\ ctx = PrinterContext_default
    /\ other = PrinterContext_default
    /\ g \in CfgGraphs
    /\ item = <<>>
    /\ src = <<>>
    /\ out = <<>>
    /\ res = NoResult
    /\ op = "new"
    /\ entry = "file"

ConfigureOrder ==
    /\ op \in {"new", "add_stmt"}
    /\ \E sep \in {<<>>, sp} :
           /\ ctx' = with_line_sep(always_inline(ctx), sep)
           /\ other' = always_inline(with_line_sep(other, sep))
    /\ op' = "ordered"
    /\ UNCHANGED <<g, item, src, out, res, entry>>

PrintOrder ==
    /\ op = "ordered"
    /\ \E a \in {print(g, ctx)}, b \in {print(g, other)} :
           /\ ctx' = a.c
           /\ other' = b.c
           /\ out' = IF a.ok THEN a.s ELSE <<>>
           /\ item' = IF b.ok THEN b.s ELSE <<>>
           /\ res' = IF a.ok /\ b.ok THEN NoResult ELSE Panic
    /\ op' = "print"
    /\ UNCHANGED <<g, src, entry>>

NextOrder == AddStmtCfg \/ ConfigureOrder \/ PrintOrder

SpecOrder == InitOrder /\ [][NextOrder]_vars

(***************************************************************************)
(* SpecExec: cmd::exec on a printed graph.  src is the graph text, item    *)
(* the temporary file and what the renderer process gave back, res the     *)
(* io::Result of exec; every file and process operation can fail.          *)
(***************************************************************************)
InitExec ==
    /\ ctx = always_inline(PrinterContext_default)
    /\ other = ctx
    /\ g \in CfgGraphs
    /\ item = [file |-> "none", spawned |-> FALSE, code |-> None, stdout |-> <<>>,
               stderr |-> <<>>]
    /\ src = <<>>
    /\ out = <<>>
    /\ res = NoResult
    /\ op = "new"
    /\ entry = "file"

\* g.print(&mut ctx), the argument of exec
PrintExec ==
    /\ op = "new"
    /\ \E r \in {print(g, ctx)} : ctx' = r.c /\ src' = r.s
    /\ op' = "exec"
    /\ UNCHANGED <<other, g, item, out, res, entry>>

\* temp_file: NamedTempFile::new()? and write_all; a file that was created
\* and not written is dropped, and the drop ignores a failed removal
TempFile ==
    /\ op = "exec"
    /\ \/ /\ item' = item
          /\ res' = Err(io_error(<<"n", "e", "w">>))
          /\ op' = "returned"
       \/ /\ \E removed \in BOOLEAN :
                 item' = [item EXCEPT !.file = IF removed THEN "removed" ELSE "left"]
          /\ res' = Err(io_error(<<"w", "r", "i", "t", "e">>))
          /\ op' = "returned"
       \/ /\ item' = [item EXCEPT !.file = "written"]
          /\ res' = res
          /\ op' = "temp_file"
    /\ UNCHANGED <<ctx, other, g, src, out, entry>>

\* f.into_temp_path() and do_exec: Command::new("dot")...output(); when the
\* process cannot be spawned the path is dropped, and the drop ignores a
\* failed removal
DoExec ==
    /\ op = "temp_file"
    /\ \/ /\ \E removed \in BOOLEAN :
                 item' = [item EXCEPT !.file = IF removed THEN "removed" ELSE "left"]
          /\ res' = Err(io_error(<<"s", "p", "a", "w", "n">>))
          /\ op' = "returned"
       \/ /\ \E code \in ExitCodes, stdout \in Stdouts, stderr \in Stderrs :
                 item' = [item EXCEPT !.spawned = TRUE, !.code = code, !.stdout = stdout,
                                      !.stderr = stderr]
          /\ res' = res
          /\ op' = "do_exec"
    /\ UNCHANGED <<ctx, other, g, src, out, entry>>

\* the closure on the Output: path.close().unwrap() on both branches
Close ==
    /\ op = "do_exec"
    /\ \E removed \in BOOLEAN :
           /\ item' = [item EXCEPT !.file = IF removed THEN "removed" ELSE "left"]
           /\ res' = IF ~removed THEN Panic
                     ELSE IF item.code = None \/ item.code # Some(0) THEN Err(item.stderr)
                     ELSE Ok(item.stdout)
           /\ op' = IF removed THEN "returned" ELSE "panicked"
    /\ UNCHANGED <<ctx, other, g, src, out, entry>>

NextExec == PrintExec \/ TempFile \/ DoExec \/ Close

SpecExec == InitExec /\ [][NextExec]_vars
(***************************************************************************)
(* Predicates on the data model used by the properties                     *)
(***************************************************************************)
anon_port(p) == p[1] # None /\ p[1][1].tag = "Anonymous"

anon_node_id(n) == n[1].tag = "Anonymous" \/ (n[2] # None /\ anon_port(n[2][1]))

anon_attrs(attrs) ==
    \E i \in 1..Len(attrs) : attrs[i][1].tag = "Anonymous" \/ attrs[i][2].tag = "Anonymous"

RECURSIVE anon_stmts(_)
RECURSIVE anon_vertex(_)

anon_vertex(v) ==
    IF v.tag = "N" THEN anon_node_id(v.n)
    ELSE v.s.id.tag = "Anonymous" \/ anon_stmts(v.s.stmts)

anon_edge(e) ==
    \/ anon_attrs(e.attributes)
    \/ IF e.ty.tag = "Pair" THEN anon_vertex(e.ty.l) \/ anon_vertex(e.ty.r)
       ELSE \E i \in 1..Len(e.ty.vs) : anon_vertex(e.ty.vs[i])

anon_stmt(st) ==
    IF st.tag = "Node" THEN anon_node_id(st.node.id) \/ anon_attrs(st.node.attributes)
    ELSE IF st.tag = "Subgraph"
    THEN st.subgraph.id.tag = "Anonymous" \/ anon_stmts(st.subgraph.stmts)
    ELSE IF st.tag = "Attribute" THEN anon_attrs(<<st.attribute>>)
    ELSE IF st.tag = "GAttribute" THEN anon_attrs(st.gattribute.attrs)
    ELSE anon_edge(st.edge)

anon_stmts(stmts) == \E i \in 1..Len(stmts) : anon_stmt(stmts[i])

\* the graph contains an Anonymous id somewhere
HasAnonymous(gr) == gr.id.tag = "Anonymous" \/ anon_stmts(gr.stmts)

\* the number of places where the two-character text pat occurs in t
count_sub(t, pat) == Cardinality({i \in 1..(Len(t) - 1) : SubSeq(t, i, i + 1) = pat})

\* the characters of t that are in S, in order
proj(t, S) == SelectSeq(t, LAMBDA ch : ch \in S)

\* the characters of t outside every {...} and [...], in order
RECURSIVE top_level(_, _, _)
top_level(t, i, depth) ==
    IF i > Len(t) THEN <<>>
    ELSE IF t[i] \in {"{", "["} THEN top_level(t, i + 1, depth + 1)
    ELSE IF t[i] \in {"}", "]"} THEN top_level(t, i + 1, depth - 1)
    ELSE (IF depth = 0 THEN <<t[i]>> ELSE <<>>) \o top_level(t, i + 1, depth)

\* t cut at every sep
RECURSIVE split(_, _, _)
split(t, sep, cur) ==
    IF Len(t) = 0 THEN <<cur>>
    ELSE IF t[1] = sep THEN <<cur>> \o split(Tail(t), sep, <<>>)
    ELSE split(Tail(t), sep, Append(cur, t[1]))

\* the text typed so far and the part of it the entered rule matched
typed == join(src, sp)

matched == do_parse(typed, entry).pairs[1].str

\* the number of edge operators an edge prints: one per bond of every edge,
\* at any nesting depth
RECURSIVE bonds_stmts(_)
RECURSIVE bonds_vertex(_)

bonds_vertex(v) == IF v.tag = "N" THEN 0 ELSE bonds_stmts(v.s.stmts)

vertices(e) == IF e.ty.tag = "Pair" THEN <<e.ty.l, e.ty.r>> ELSE e.ty.vs

RECURSIVE sum(_)
sum(ns) == IF Len(ns) = 0 THEN 0 ELSE ns[1] + sum(Tail(ns))

bonds_edge(e) ==
    (Len(vertices(e)) - 1) + sum([i \in 1..Len(vertices(e)) |-> bonds_vertex(vertices(e)[i])])

bonds_stmt(st) ==
    IF st.tag = "Edge" THEN bonds_edge(st.edge)
    ELSE IF st.tag = "Subgraph" THEN bonds_stmts(st.subgraph.stmts)
    ELSE 0

bonds_stmts(stmts) == sum([i \in 1..Len(stmts) |-> bonds_stmt(stmts[i])])

\* no edge at any nesting depth is a Chain of fewer than 3 vertices
RECURSIVE long_chains_stmts(_)

long_chains_vertex(v) == v.tag = "N" \/ long_chains_stmts(v.s.stmts)

long_chains_edge(e) ==
    /\ e.ty.tag = "Chain" => Len(e.ty.vs) >= 3
    /\ \A i \in 1..Len(vertices(e)) : long_chains_vertex(vertices(e)[i])

long_chains_stmt(st) ==
    IF st.tag = "Edge" THEN long_chains_edge(st.edge)
    ELSE IF st.tag = "Subgraph" THEN long_chains_stmts(st.subgraph.stmts)
    ELSE TRUE

long_chains_stmts(stmts) == \A i \in 1..Len(stmts) : long_chains_stmt(stmts[i])

\* the id of a node vertex or of a subgraph vertex, as text
vertex_mark(v) == IF v.tag = "N" THEN v.n[1].v ELSE v.s.id.v

\* node statements and subgraph statements as their ids, a subgraph's body in
\* braces behind its id
RECURSIVE shape_stmts(_)

shape_stmt(st) ==
    IF st.tag = "Node" THEN st.node.id[1].v
    ELSE IF st.tag = "Subgraph"
    THEN st.subgraph.id.v \o <<"{">> \o shape_stmts(st.subgraph.stmts) \o <<"}">>
    ELSE <<"?">>

shape_stmts(stmts) ==
    IF Len(stmts) = 0 THEN <<>> ELSE shape_stmt(stmts[1]) \o shape_stmts(Tail(stmts))

Marks == {"x", "y", "w"}

\* the id a port segment or node id text denotes
text_id(s) == IF s[1] = QT THEN Id("Escaped", s) ELSE Id("Plain", s)

\* the attributes k=v of a text whose keys and values are single characters
attrs_of_text(t) ==
    [k \in 1..Len(proj(t, {"="})) |->
        the({ Attribute(id_plain(<<t[i - 1]>>), id_plain(<<t[i + 1]>>))
              : i \in {j \in 1..Len(t) :
                          t[j] = "=" /\ Len(proj(SubSeq(t, 1, j), {"="})) = k} })]

(***************************************************************************)
(* C1  Round trip under the default context: for every graph without an    *)
(* Anonymous id, parsing the text printed with PrinterContext::default()   *)
(* succeeds and gives back an equal graph.                                 *)
(***************************************************************************)
C1_RoundTripDefault ==
    (op = "parse" /\ ~HasAnonymous(g)) => res = Ok(g)

(***************************************************************************)
(* C2  Printer output is re-parseable under every context configuration:   *)
(* for every graph without an Anonymous id, the text printed with any      *)
(* combination of always_inline, with_semi, with_node_mult_attr_s_l,       *)
(* with_indent_step and with_line_sep is accepted by parse and gives back  *)
(* an equal graph.                                                         *)
(***************************************************************************)
C2_ReparseableAnyConfig ==
    (op = "parse" /\ ~HasAnonymous(g)) => (res.tag = "Ok" /\ res.graph = <<g>>)

(***************************************************************************)
(* C3  Directedness propagation: the text printed for a graph has one      *)
(* '->' for every bond of every edge at any nesting depth and no '--' when *)
(* the root is a DiGraph, and one '--' for every bond and no '->' when the *)
(* root is a Graph.                                                        *)
(***************************************************************************)
C3_Directedness ==
    (op = "print" /\ res.tag # "Panic") =>
        /\ count_sub(out, <<"-", ">">>) = (IF g.tag = "DiGraph" THEN bonds_stmts(g.stmts) ELSE 0)
        /\ count_sub(out, <<"-", "-">>) = (IF g.tag = "Graph" THEN bonds_stmts(g.stmts) ELSE 0)

\* a DiGraph with an edge whose endpoint is a subgraph holding an edge, and
\* an edge nested two subgraphs deep, has been printed
C3_Witness ==
    /\ op = "print"
    /\ res.tag # "Panic"
    /\ g.tag = "DiGraph"
    /\ g.stmts = <<StmtEdge(edge_macro(<<VertexN(na), VertexS(sg_edge)>>, <<>>)),
                   StmtSubgraph(Subgraph(id_b, <<StmtSubgraph(sg_edge), st_a>>))>>
    /\ count_sub(out, <<"-", ">">>) = 3

(***************************************************************************)
(* C4  Inline-size compaction: on a context that is not in inline mode an  *)
(* edge statement whose rendering in the current mode is at most           *)
(* inline_size long is printed as rendered with the empty line separator   *)
(* and no indentation, a longer one as rendered in the current mode, and   *)
(* the other statements of the body are printed in the current mode.       *)
(***************************************************************************)
edge_expected(e, c) ==
    IF Len(print_edge(e, c).s) <= c.inline_size
    THEN print_edge(e, [c EXCEPT !.l_s = <<>>, !.l_s_i = <<>>]).s
    ELSE print_edge(e, c).s

stmt_expected(st, c) ==
    IF st.tag = "Edge"
    THEN indent(c) \o edge_expected(st.edge, c) \o (IF c.semi THEN <<";">> ELSE <<>>)
    ELSE Stmt_print(st, c).s

\* 'strict ' if strict, 'graph' or 'digraph', a space, the id, ' {'
header(gr) ==
    (IF gr.strict THEN kw_strict \o <<" ">> ELSE <<>>)
    \o (IF gr.tag = "DiGraph" THEN kw_digraph ELSE kw_graph)
    \o <<" ">> \o gr.id.v \o <<" ", "{">>

graph_expected(gr, c) ==
    header(gr) \o c.l_s
    \o join([i \in 1..Len(gr.stmts) |-> stmt_expected(gr.stmts[i], c)], c.l_s)
    \o c.l_s \o <<"}">>

C4_InlineCompaction ==
    (op = "print" /\ res.tag # "Panic" /\ ~is_inline_on(ctx)) => out = graph_expected(g, ctx)

\* the same on the contexts made by PrinterContext::default(), whose inline
\* separator is empty
CompactionFromDefault ==
    (op = "print" /\ res.tag # "Panic" /\ ~is_inline_on(ctx) /\ ctx.l_s_i = <<>>)
        => out = graph_expected(g, ctx)

\* an edge of exactly inline_size characters was compacted next to a node
CompactionAtBoundary ==
    /\ op = "print"
    /\ ~is_inline_on(ctx)
    /\ ctx.l_s_i = <<>>
    /\ ctx.inline_size = DefaultInlineSize
    /\ g.stmts = <<long_edge(0), st_x>>
    /\ Len(print_edge(long_edge(0).edge, ctx).s) = DefaultInlineSize
    /\ out = graph_expected(g, ctx)
    /\ count_sub(out, <<"{", "x">>) = 1

(***************************************************************************)
(* C5  Chain collapsing: process_edge_stmt gives EdgeTy::Pair for an edge  *)
(* statement of exactly 2 vertices and EdgeTy::Chain for one of more than  *)
(* 2, with the vertices in source order, and no edge a parse produces, at  *)
(* any nesting depth, is a Chain of fewer than 3 vertices.                 *)
(***************************************************************************)
\* the edge operators of the matched statement itself
edge_ops == count_sub(top_level(matched, 1, 0), <<"-", ">">>)
            + count_sub(top_level(matched, 1, 0), <<"-", "-">>)

C5_ChainCollapsing ==
    /\ (op = "parse" /\ entry = "edge_stmt" /\ do_parse(typed, entry).ok) =>
           /\ res.tag = "Ok"
           /\ edge_ops = 1 => res.graph[1].ty.tag = "Pair"
           /\ edge_ops > 1 => /\ res.graph[1].ty.tag = "Chain"
                              /\ Len(res.graph[1].ty.vs) = edge_ops + 1
           /\ join([i \in 1..Len(vertices(res.graph[1])) |->
                       vertex_mark(vertices(res.graph[1])[i])], <<>>)
                  = proj(top_level(matched, 1, 0), Marks)
           /\ long_chains_edge(res.graph[1])
    /\ (op = "parse" /\ entry = "body" /\ res.tag = "Ok") => long_chains_stmts(res.graph[1])
    /\ (op = "parse" /\ entry = "file" /\ res.tag = "Ok") =>
           long_chains_stmts(res.graph[1].stmts)

\* a statement of 3 vertices, one of them a subgraph holding an edge, was
\* parsed to a Chain
C5_Witness ==
    /\ op = "parse"
    /\ entry = "edge_stmt"
    /\ res.tag = "Ok"
    /\ res.graph[1].ty.tag = "Chain"
    /\ Len(res.graph[1].ty.vs) = 3
    /\ res.graph[1].ty.vs[2].tag = "S"
    /\ res.graph[1].ty.vs[2].s.stmts[1].edge.ty.tag = "Pair"

(***************************************************************************)
(* C6  Compass disambiguation: a port of one segment that is a Plain id    *)
(* among n, ne, e, se, s, sw, w, nw, c, _ becomes Port(None, Some(compass))*)
(* ; one segment with any other id becomes Port(Some(id), None); a port of *)
(* two segments becomes Port(Some(id), Some(compass)) with the first       *)
(* segment kept as an id.                                                  *)
(***************************************************************************)
\* the segments of the matched node id text: the id, then the port's
segments == [i \in 1..Len(split(matched, ":", <<>>)) |->
                proj(split(matched, ":", <<>>)[i], Letters \cup Digits \cup {QT})]

port_expected ==
    IF Len(segments) = 1 THEN None
    ELSE IF Len(segments) = 2
    THEN IF text_id(segments[2]).tag = "Plain" /\ segments[2] \in CompassTokens
         THEN Some(Port(None, Some(segments[2])))
         ELSE Some(Port(Some(text_id(segments[2])), None))
    ELSE Some(Port(Some(text_id(segments[2])), Some(segments[3])))

C6_CompassDisambiguation ==
    (op = "parse" /\ entry = "node_id" /\ do_parse(typed, entry).ok) =>
        res = Ok(NodeId(text_id(segments[1]), port_expected))

\* the node id text "x :n" has been parsed to a compass port
C6_Witness ==
    /\ op = "parse"
    /\ entry = "node_id"
    /\ src = <<<<"x">>, <<":", "n">>>>
    /\ res = Ok(NodeId(id_x, Some(Port(None, Some(<<"n">>)))))

(***************************************************************************)
(* C7  Attribute-list flattening: the attributes of all the bracket groups *)
(* of one attribute list are returned as one list in source order;         *)
(* '[a=1,b=c][d=2]' gives the same list as '[a=1,b=c,d=2]'.                *)
(***************************************************************************)
grouped == <<<<"[", "a", "=", "1", ",", "b", "=", "c">>, <<"]", "[">>, <<"d", "=", "2">>, <<"]">>>>

merged == <<<<"[", "a", "=", "1", ",", "b", "=", "c">>, <<",">>, <<"d", "=", "2">>, <<"]">>>>

C7_AttrListFlattening ==
    /\ (op = "parse" /\ entry = "attr_list" /\ do_parse(typed, entry).ok) =>
           res = Ok(attrs_of_text(matched))
    /\ (op = "parse" /\ entry = "attr_list" /\ src \in {grouped, merged}) =>
           res = Ok(<<Attribute(id_plain(<<"a">>), id_plain(<<"1">>)),
                      Attribute(id_plain(<<"b">>), id_plain(<<"c">>)),
                      Attribute(id_plain(<<"d">>), id_plain(<<"2">>))>>)

\* the list in two groups has been parsed to three attributes
C7_Witness ==
    /\ op = "parse"
    /\ entry = "attr_list"
    /\ src = grouped
    /\ res.tag = "Ok"
    /\ Len(res.graph[1]) = 3

(***************************************************************************)
(* C8  Statement order is preserved end to end: process_body returns the   *)
(* statements of a body in source order at every nesting level, and the    *)
(* text printed for them has them in list order at every nesting level;    *)
(* none is dropped, duplicated or reordered.                               *)
(***************************************************************************)
\* the ids and braces of a text
outline(t) == proj(t, Marks \cup {"{", "}"})

C8_StatementOrder ==
    /\ (op = "parse" /\ entry = "body" /\ do_parse(typed, entry).ok) =>
           /\ res.tag = "Ok"
           /\ <<"{">> \o shape_stmts(res.graph[1]) \o <<"}">> = outline(matched)
    /\ (op = "print" /\ entry = "body") =>
           /\ res.tag = "Ok"
           /\ outline(out) = shape_stmts(res.graph[1])
           /\ <<"{">> \o outline(out) \o <<"}">> = outline(matched)

\* a body of a subgraph with two statements followed by a node has been
\* parsed and printed
C8_Witness ==
    /\ op = "print"
    /\ entry = "body"
    /\ res.tag = "Ok"
    /\ outline(out) = <<"w", "{", "y", "x", "}", "x">>

(***************************************************************************)
(* C9  Parse error handling: when the grammar rejects the input parse      *)
(* returns Err with a message, builds no Graph and does not panic; when    *)
(* the grammar accepts it parse returns Ok with exactly one Graph.         *)
(***************************************************************************)
C9_ParseErrors ==
    (op = "parse" /\ entry = "file") =>
        IF do_parse(typed, "file").ok
        THEN res.tag = "Ok" /\ Len(res.graph) = 1 /\ res.msg = <<>>
        ELSE res.tag = "Err" /\ res.graph = <<>> /\ Len(res.msg) > 0

\* a text the grammar rejects behind the graph's opening brace gave Err
C9_Witness ==
    /\ op = "parse"
    /\ entry = "file"
    /\ src = <<kw_graph \o <<" ", "t", " ", "{">>, <<"[">>>>
    /\ ~do_parse(typed, "file").ok
    /\ res.tag = "Err"
    /\ Len(res.msg) > 0

(***************************************************************************)
(* C10  Printing is total: print returns a string and does not panic, for  *)
(* every graph the constructors and macros build, the default port!()      *)
(* included, under every context configuration.                            *)
(***************************************************************************)
C10_PrintTotal == op = "print" => res.tag # "Panic"

(***************************************************************************)
(* C11  Display of an Id gives the inner string alone for Plain, Escaped   *)
(* and Html and the empty string for Anonymous.                            *)
(***************************************************************************)
C11_DisplayInner ==
    op = "display" => out = (IF item.tag = "Anonymous" THEN <<>> ELSE item.v)

(***************************************************************************)
(* C12  Two Ids are equal exactly when they have the same variant and the  *)
(* same inner string; an Anonymous id is not equal to a Plain, Escaped or  *)
(* Html id holding the same string.                                        *)
(***************************************************************************)
C12_IdEquality ==
    op = "eq" =>
        /\ res.graph[1] <=> (item[1].tag = item[2].tag /\ item[1].v = item[2].v)
        /\ (item[1].tag = "Anonymous" /\ item[2].tag # "Anonymous") => ~res.graph[1]

\* an Anonymous and a Plain id holding the same string were compared
C12_Witness ==
    /\ op = "eq"
    /\ item = <<Id("Anonymous", <<"a">>), Id("Plain", <<"a">>)>>
    /\ res = Ok(FALSE)

RECURSIVE flat_stmts(_, _)

flat_attrs(attrs) ==
    IF Len(attrs) = 0 THEN <<>>
    ELSE <<"[">>
         \o join([i \in 1..Len(attrs) |-> attrs[i][1].v \o <<"=">> \o attrs[i][2].v], <<",">>)
         \o <<"]">>

flat_subgraph(sg, c) ==
    kw_subgraph \o <<" ">> \o sg.id.v \o <<" ", "{">> \o flat_stmts(sg.stmts, c) \o <<"}">>

flat_vertex(v, c) == IF v.tag = "N" THEN NodeId_print(v.n, c).s ELSE flat_subgraph(v.s, c)

flat_edge(e, c) ==
    join([i \in 1..Len(vertices(e)) |-> flat_vertex(vertices(e)[i], c)],
         <<" ">> \o edge_bond(c) \o <<" ">>)
    \o (IF e.ty.tag = "Pair" /\ Len(e.attributes) > 0 THEN <<" ">> ELSE <<>>)
    \o flat_attrs(e.attributes)

flat_stmt(st, c) ==
    (IF st.tag = "Node" THEN NodeId_print(st.node.id, c).s \o flat_attrs(st.node.attributes)
     ELSE IF st.tag = "Subgraph" THEN flat_subgraph(st.subgraph, c)
     ELSE IF st.tag = "Attribute" THEN st.attribute[1].v \o <<"=">> \o st.attribute[2].v
     ELSE IF st.tag = "GAttribute"
     THEN (IF st.gattribute.tag = "Graph" THEN kw_graph
           ELSE IF st.gattribute.tag = "Node" THEN kw_node ELSE kw_edge)
          \o flat_attrs(st.gattribute.attrs)
     ELSE flat_edge(st.edge, c))
    \o (IF c.semi THEN <<";">> ELSE <<>>)

flat_stmts(stmts, c) ==
    IF Len(stmts) = 0 THEN <<>> ELSE flat_stmt(stmts[1], c) \o flat_stmts(Tail(stmts), c)

\* what always_inline() leaves of the separators of a default context
inline_default(c) == c.l_s = <<>> /\ c.l_s_i = <<>> /\ c.l_s_m = <<>>

C14_AlwaysInline ==
    (op = "print" /\ res.tag # "Panic" /\ inline_default(other)) =>
        /\ out = header(g) \o flat_stmts(g.stmts, ctx) \o <<"}">>
        /\ proj(out, {"\n"}) = <<>>

\* a subgraph nested in a subgraph and an edge to a subgraph were printed on
\* one line
C14_Witness ==
    /\ op = "print"
    /\ inline_default(other)
    /\ ~other.semi
    /\ g = Graph("Graph", id_t, FALSE,
                 <<StmtSubgraph(Subgraph(id_w, <<StmtSubgraph(Subgraph(id_y, <<st_x>>)), st_y>>)),
                   StmtEdge(edge_macro(<<VertexN(NodeId(id_x, None)),
                                         VertexS(Subgraph(id_w, <<st_x, st_y>>))>>, <<>>))>>)
    /\ out = kw_graph \o <<" ", "t", " ", "{">> \o kw_subgraph \o <<" ", "w", " ", "{">>
             \o kw_subgraph \o <<" ", "y", " ", "{", "x", "}", "y", "}">>
             \o <<"x", " ", "-", "-", " ">> \o kw_subgraph
             \o <<" ", "w", " ", "{", "x", "y", "}", "}">>

(***************************************************************************)
(* C15  Semicolon option: with with_semi() every printed statement, at     *)
(* every nesting level, in subgraphs that are edge endpoints and in edges  *)
(* compacted onto one line too, is followed by exactly one ';'; without it *)
(* the printed text has no ';'.                                            *)
(***************************************************************************)
\* the number of statements at all nesting levels
RECURSIVE count_stmts(_)

count_vertex(v) == IF v.tag = "N" THEN 0 ELSE count_stmts(v.s.stmts)

count_stmt(st) ==
    1 + (IF st.tag = "Subgraph" THEN count_stmts(st.subgraph.stmts)
         ELSE IF st.tag = "Edge"
         THEN sum([i \in 1..Len(vertices(st.edge)) |-> count_vertex(vertices(st.edge)[i])])
         ELSE 0)

count_stmts(stmts) == sum([i \in 1..Len(stmts) |-> count_stmt(stmts[i])])

C15_Semicolons ==
    (op = "print" /\ res.tag # "Panic") =>
        /\ Len(proj(out, {";"})) = (IF other.semi THEN count_stmts(g.stmts) ELSE 0)
        /\ count_sub(out, <<";", ";">>) = 0

\* with semicolons on, an edge to a subgraph of two statements was
\* compacted onto one line next to a nested subgraph
C15_Witness ==
    /\ op = "print"
    /\ other.semi
    /\ ~is_inline_on(other)
    /\ g.stmts = <<StmtEdge(edge_macro(<<VertexN(NodeId(id_x, None)),
                                         VertexS(Subgraph(id_w, <<st_x, st_y>>))>>, <<>>)),
                   StmtSubgraph(Subgraph(id_w, <<StmtSubgraph(Subgraph(id_y, <<st_x>>)), st_y>>))>>
    /\ count_sub(out, <<"{", "x">>) = 1
    /\ Len(proj(out, {";"})) = 7

(***************************************************************************)
(* C16  Attribute-list printing: an empty list prints as the empty string; *)
(* a non-empty list prints as '[', the attributes joined by ',' and ']' by *)
(* default; with one attribute per line enabled in the multiline mode a    *)
(* list of two or more attributes prints as '[', each attribute on its own *)
(* line one step deeper than the statement, then the line separator, the   *)
(* statement's indent and ']'; a list of exactly one attribute stays on    *)
(* one line.                                                               *)
(***************************************************************************)
attr_texts(attrs, c) == [i \in 1..Len(attrs) |-> Attribute_print(attrs[i], c)]

attr_line(c) == c.l_s \o repeat(" ", c.indent + c.indent_step)

C16_AttrListPrinting ==
    op = "print_attributes" =>
        /\ res = NoResult
        /\ Len(item) = 0 => out = <<>>
        /\ (Len(item) > 0 /\ ~other.mult_node_attr_on_s_l) =>
               out = <<"[">> \o join(attr_texts(item, other), <<",">>) \o <<"]">>
        /\ Len(item) = 1 => out = <<"[">> \o attr_texts(item, other)[1] \o <<"]">>
        /\ (Len(item) >= 2 /\ other.mult_node_attr_on_s_l /\ ~is_inline_on(other)) =>
               out = <<"[">> \o attr_line(other)
                     \o join(attr_texts(item, other), <<",">> \o attr_line(other))
                     \o other.l_s \o repeat(" ", other.indent) \o <<"]">>

\* three attributes of a statement at indent 2 were printed one per line
C16_Witness ==
    /\ op = "print_attributes"
    /\ other.mult_node_attr_on_s_l
    /\ other.l_s = NL
    /\ other.indent = 2
    /\ other.indent_step = 2
    /\ other.attr_value_printers = <<>>
    /\ Len(item) = 3
    /\ out = <<"[", "\n", " ", " ", " ", " ", "b", "=", "a", ",",
               "\n", " ", " ", " ", " ", "a", "=", QT, "a", QT, ",",
               "\n", " ", " ", " ", " ", "a", "=", "b",
               "\n", " ", " ", "]">>

(***************************************************************************)
(* C17  Indentation per nesting level: on a fresh multiline context with   *)
(* indent step k a statement of the root body is prefixed by k spaces, a   *)
(* statement of a subgraph nested d levels deep by (d+1)*k spaces and that *)
(* subgraph's closing brace by d*k spaces; the root's closing brace has no *)
(* indentation.  This holds for every statement outside an edge statement  *)
(* that was compacted onto one line: the statements and closing braces of  *)
(* the subgraphs inside a compacted edge carry no indentation.             *)
(***************************************************************************)
\* the layout written with the nesting level n of each statement explicit;
\* keep: an edge with a subgraph among its vertices is never compacted
RECURSIVE lvl_stmt(_, _, _, _)

pad(n, c) == repeat(" ", n * c.indent_step)

lvl_attrs(attrs, n, c) ==
    IF Len(attrs) > 1 /\ c.mult_node_attr_on_s_l
    THEN <<"[">> \o c.l_s \o pad(n + 1, c)
         \o join([i \in 1..Len(attrs) |-> attrs[i][1].v \o <<"=">> \o attrs[i][2].v],
                 <<",">> \o c.l_s \o pad(n + 1, c))
         \o c.l_s \o pad(n, c) \o <<"]">>
    ELSE flat_attrs(attrs)

lvl_subgraph(sg, n, c, keep) ==
    kw_subgraph \o <<" ">> \o sg.id.v \o <<" ", "{">> \o c.l_s
    \o join([i \in 1..Len(sg.stmts) |-> lvl_stmt(sg.stmts[i], n + 1, c, keep)], c.l_s)
    \o c.l_s \o pad(n, c) \o <<"}">>

lvl_vertex(v, n, c, keep) ==
    IF v.tag = "N" THEN NodeId_print(v.n, c).s ELSE lvl_subgraph(v.s, n, c, keep)

lvl_edge(e, n, c, keep) ==
    join([i \in 1..Len(vertices(e)) |-> lvl_vertex(vertices(e)[i], n, c, keep)],
         <<" ">> \o edge_bond(c) \o <<" ">>)
    \o (IF e.ty.tag = "Pair" /\ Len(e.attributes) > 0 THEN <<" ">> ELSE <<>>)
    \o lvl_attrs(e.attributes, n, c)

has_subgraph(e) == \E i \in 1..Len(vertices(e)) : vertices(e)[i].tag = "S"

lvl_stmt(st, n, c, keep) ==
    pad(n, c)
    \o (IF st.tag = "Node"
        THEN NodeId_print(st.node.id, c).s \o lvl_attrs(st.node.attributes, n, c)
        ELSE IF st.tag = "Subgraph" THEN lvl_subgraph(st.subgraph, n, c, keep)
        ELSE IF st.tag = "Attribute" THEN st.attribute[1].v \o <<"=">> \o st.attribute[2].v
        ELSE IF st.tag = "GAttribute"
        THEN (IF st.gattribute.tag = "Graph" THEN kw_graph
              ELSE IF st.gattribute.tag = "Node" THEN kw_node ELSE kw_edge)
             \o lvl_attrs(st.gattribute.attrs, n, c)
        ELSE IF Len(lvl_edge(st.edge, n, c, keep)) <= c.inline_size
                /\ ~(keep /\ has_subgraph(st.edge))
        THEN flat_edge(st.edge, c)
        ELSE lvl_edge(st.edge, n, c, keep))
    \o (IF c.semi THEN <<";">> ELSE <<>>)

lvl_graph(gr, c, keep) ==
    header(gr) \o c.l_s
    \o join([i \in 1..Len(gr.stmts) |-> lvl_stmt(gr.stmts[i], 1, c, keep)], c.l_s)
    \o c.l_s \o <<"}">>

\* a context as PrinterContext::default() and the builders make it, not inline
fresh_multiline(c) == ~is_inline_on(c) /\ c.l_s_i = <<>> /\ c.indent = 0

id_text(id) == IF id.tag = "Anonymous" THEN <<>> ELSE id.v

\* the printers registered for exactly this Id, variant and string
registered(c, key) ==
    { c.attr_value_printers[i][2] : i \in { j \in 1..Len(c.attr_value_printers) :
                                              /\ c.attr_value_printers[j][1].tag = key.tag
                                              /\ c.attr_value_printers[j][1].v = key.v } }

C18_AttrValueFormatter ==
    op = "print_attribute" =>
        /\ Cardinality(registered(other, item[1])) <= 1
        /\ \A fmt \in registered(other, item[1]) :
               out = id_text(item[1]) \o <<"=">>
                     \o Formatter(fmt, id_text(item[2]), other.l_s,
                                  IF other.l_s = other.l_s_i THEN <<>>
                                  ELSE repeat(" ", other.indent),
                                  other.indent_step)
        /\ registered(other, item[1]) = {} =>
               out = id_text(item[1]) \o <<"=">> \o id_text(item[2])
        /\ SubSeq(out, 1, Len(id_text(item[1])) + 1) = id_text(item[1]) \o <<"=">>

\* with a printer for Plain a and a printer for Escaped a, the attribute of
\* key Plain a got the first one's text and kept its key
C18_Witness ==
    /\ op = "print_attribute"
    /\ item = Attribute(id_a, id_qa)
    /\ other.attr_value_printers = <<<<id_a, "stars">>, <<Id("Escaped", <<"a">>), "block">>>>
    /\ out = <<"a", "=", QT, "*", "*", "a", "*", "*", QT>>

RECURSIVE anonymous_stmts(_)

anonymous_subgraph(sg) ==
    (IF sg.id.tag = "Anonymous" THEN <<sg.id.v>> ELSE <<>>) \o anonymous_stmts(sg.stmts)

anonymous_stmt(st) ==
    IF st.tag = "Subgraph" THEN anonymous_subgraph(st.subgraph)
    ELSE IF st.tag = "Edge"
    THEN join([i \in 1..Len(vertices(st.edge)) |->
                  IF vertices(st.edge)[i].tag = "S"
                  THEN anonymous_subgraph(vertices(st.edge)[i].s) ELSE <<>>], <<>>)
    ELSE <<>>

anonymous_stmts(stmts) ==
    IF Len(stmts) = 0 THEN <<>>
    ELSE anonymous_stmt(stmts[1]) \o anonymous_stmts(Tail(stmts))

anonymous_ids(gr) ==
    (IF gr.id.tag = "Anonymous" THEN <<gr.id.v>> ELSE <<>>) \o anonymous_stmts(gr.stmts)

text_tag(s) == IF s[1] = QT THEN "Escaped" ELSE IF s[1] = "<" THEN "Html" ELSE "Plain"

port_text(p) ==
    (IF p[1] # None THEN <<":">> \o p[1][1].v ELSE <<>>)
    \o (IF p[2] # None THEN <<":">> \o p[2][1] ELSE <<>>)

C21_VerbatimIds ==
    /\ op = "parse_id" =>
           /\ res.tag = "Ok"
           /\ res.graph[1][1] = Id(text_tag(item), split(item, ":", <<>>)[1])
           /\ out = item
           /\ res.graph[1][2] # None =>
                  /\ res.graph[1][2][1] # port_default
                  /\ out = res.graph[1][1].v \o port_text(res.graph[1][2][1])
           /\ (res.graph[1][2] # None /\ res.graph[1][2][1][1] # None) =>
                  res.graph[1][2][1][1][1]
                      = Id(text_tag(split(item, ":", <<>>)[2]), split(item, ":", <<>>)[2])
    /\ (op = "print_attribute" /\ item[1].tag = "Anonymous") =>
           out = <<"=">> \o item[2].v

\* a quoted id with a quoted port id and a compass came back as typed
C21_Witness ==
    /\ op = "parse_id"
    /\ item = <<QT, "a", QT, ":", QT, "b", QT, ":", "n", "e">>
    /\ res = Ok(NodeId(Id("Escaped", <<QT, "a", QT>>),
                       Some(Port(Some(Id("Escaped", <<QT, "b", QT>>)), Some(<<"n", "e">>)))))
    /\ out = item

(***************************************************************************)
(* C22  Reusing one PrinterContext across sequential print calls is safe:  *)
(* printing the same Graph twice in sequence with the same context yields  *)
(* the same string both times.                                             *)
(***************************************************************************)
C22_ReuseSafe ==
    \A i \in 1..(Len(item) - 1) :
        (item[i].kind = "Graph" /\ item[i + 1].kind = "Graph"
         /\ item[i].value = item[i + 1].value
         /\ item[i + 1].at_entry = item[i].at_exit)
            => item[i + 1].text = item[i].text

(***************************************************************************)
(* C26  Context state is restored by printing: every print call (Graph,    *)
(* Subgraph, Stmt, Edge, Vec<Attribute>) returns with ctx.indent and the   *)
(* current line separator ctx.l_s equal to their values at entry; the      *)
(* indent grown on entering a body is shrunk on exit and the inline mode   *)
(* switched on for edge compaction is switched back.                       *)
(***************************************************************************)
restored(call) ==
    /\ call.at_exit.indent = call.at_entry.indent
    /\ call.at_exit.l_s = call.at_entry.l_s

C26_ContextRestored ==
    \A i \in 1..Len(item) : item[i].ok => restored(item[i])

\* the same for the calls below Graph, which change nothing of the context
RestoredBelowGraph ==
    \A i \in 1..Len(item) :
        (item[i].ok /\ item[i].kind # "Graph") => item[i].at_exit = item[i].at_entry

(***************************************************************************)
(* C29  The edge operator depends only on the most recent Graph print on   *)
(* the context: a Graph print sets the directedness flag before it renders *)
(* its body, so an undirected Graph printed after a DiGraph renders all    *)
(* its edges with '--' (and the other way round), and an Edge or Subgraph  *)
(* printed directly uses '--' on a fresh context.                          *)
(***************************************************************************)
\* the edge operators a printed value has
bonds_value(call) ==
    IF call.kind = "Graph" THEN bonds_stmts(call.value.stmts)
    ELSE IF call.kind = "Subgraph" THEN bonds_stmts(call.value.stmts)
    ELSE IF call.kind = "Stmt" THEN bonds_stmt(call.value)
    ELSE IF call.kind = "Edge" THEN bonds_edge(call.value)
    ELSE 0

\* the Graph print calls before call i
graphs_before(i) == {j \in 1..(i - 1) : item[j].kind = "Graph"}

\* the directedness the call i prints with
directed(i) ==
    IF item[i].kind = "Graph" THEN item[i].value.tag = "DiGraph"
    ELSE IF graphs_before(i) = {} THEN FALSE
    ELSE item[CHOOSE j \in graphs_before(i) : \A k \in graphs_before(i) : k <= j].value.tag
             = "DiGraph"

C29_EdgeOperator ==
    \A i \in 1..Len(item) :
        item[i].ok =>
            /\ count_sub(item[i].text, <<"-", ">">>)
                   = (IF directed(i) THEN bonds_value(item[i]) ELSE 0)
            /\ count_sub(item[i].text, <<"-", "-">>)
                   = (IF directed(i) THEN 0 ELSE bonds_value(item[i]))

\* an undirected Graph was printed behind a DiGraph on the same context
C29_Witness ==
    /\ Len(item) = 2
    /\ item[1].kind = "Graph"
    /\ item[1].value.tag = "DiGraph"
    /\ count_sub(item[1].text, <<"-", ">">>) = 1
    /\ item[2].kind = "Graph"
    /\ item[2].value.tag = "Graph"
    /\ item[2].at_entry.is_digraph
    /\ count_sub(item[2].text, <<"-", "-">>) = 1
    /\ count_sub(item[2].text, <<"-", ">">>) = 0

(***************************************************************************)
(* C30  Across any sequence of configuration calls and print calls on one  *)
(* PrinterContext indent_shrink is never executed with indent below        *)
(* indent_step (no unsigned underflow): every shrink is paired with an     *)
(* earlier grow made in the same mode with the same step; and the current  *)
(* line separator l_s always equals the inline separator l_s_i or the      *)
(* multiline separator l_s_m.                                              *)
(***************************************************************************)
separator_known(c) == c.l_s = c.l_s_i \/ c.l_s = c.l_s_m

C30_NoUnderflow ==
    /\ res.tag # "Panic"
    /\ separator_known(ctx)
    /\ \A i \in 1..Len(item) :
           /\ item[i].ok
           /\ separator_known(item[i].at_exit)
           /\ is_inline_on(item[i].at_exit) <=> is_inline_on(item[i].at_entry)
           /\ item[i].at_exit.indent_step = item[i].at_entry.indent_step
           /\ item[i].kind # "Graph" => item[i].at_exit.indent = item[i].at_entry.indent

\* behind a Graph print and with_indent_step(4) a Subgraph was printed from
\* indent 2: its grow to 6 and its shrink by 4 left indent 2
C30_Witness ==
    /\ Len(item) = 2
    /\ item[1].kind = "Graph"
    /\ item[2].kind = "Subgraph"
    /\ ~is_inline_on(item[2].at_entry)
    /\ item[2].at_entry.indent = 2
    /\ item[2].at_entry.indent_step = 4
    /\ item[2].at_exit.indent = 2
    /\ item[2].ok
    /\ count_sub(item[2].text, <<"\n", " ">>) = 3

(***************************************************************************)
(* C27  PrinterContext::new(false, 2, "\n", 90) is equivalent to           *)
(* PrinterContext::default(): both start in multiline mode, and printing   *)
(* any graph with either yields the same string (nested statements         *)
(* indented by the step, short edges compacted).                           *)
(***************************************************************************)
C27_NewIsDefault ==
    \A i \in 1..Len(item) :
        (item[i].kind = "Graph"
         /\ item[i].at_entry = PrinterContext_new(FALSE, DefaultIndentStep, NL, DefaultInlineSize))
            => /\ ~is_inline_on(item[i].at_entry)
               /\ item[i].text = Graph_print(item[i].value, PrinterContext_default).s

(***************************************************************************)
(* C28  Configuration calls commute: always_inline() and with_line_sep(s)  *)
(* applied to a default context in either order give contexts that print   *)
(* every graph identically, and a context on which always_inline() has     *)
(* been called stays inline whatever configuration call follows.           *)
(***************************************************************************)
C28_ConfigCommute ==
    /\ op = "ordered" => is_inline_on(ctx)
    /\ (op = "print" /\ res.tag # "Panic") => out = item

\* the same for the empty separator alone, with which the two orders meet
CommuteEmptySeparator ==
    (op = "print" /\ res.tag # "Panic" /\ other.l_s = <<>> /\ ctx.l_s = <<>>) => out = item

(***************************************************************************)
(* C23  cmd::exec error handling: exec returns Err carrying the renderer's *)
(* stderr text when the exit code is non-zero or absent, Err when the      *)
(* temporary file or the process cannot be created, and Ok(stdout bytes)   *)
(* when the exit code is zero; on every path the temporary input file is   *)
(* removed before exec returns.                                            *)
(***************************************************************************)
exec_done == op \in {"returned", "panicked"}

C23_ExecErrors ==
    /\ (exec_done /\ item.spawned /\ item.code # Some(0)) => res = Err(item.stderr)
    /\ (exec_done /\ item.spawned /\ item.code = Some(0)) => res = Ok(item.stdout)
    /\ (exec_done /\ ~item.spawned) => res.tag = "Err"
    /\ exec_done => item.file \in {"none", "removed"}

\* the same on the runs on which no removal of the file failed
ExecErrorsRemovable ==
    (exec_done /\ item.file # "left") =>
        /\ op = "returned"
        /\ (item.spawned /\ item.code # Some(0)) => res = Err(item.stderr)
        /\ (item.spawned /\ item.code = Some(0)) => res = Ok(item.stdout)
        /\ ~item.spawned => res.tag = "Err"

(***************************************************************************)
(* C24  The attr! macro builds Attribute(id!(kp k), id!(vp v)) for every   *)
(* combination of an optional key prefix kp and an optional value prefix   *)
(* vp (each absent, esc or html); attr!(esc "a", esc "1") equals           *)
(* Attribute(id!(esc "a"), id!(esc "1")).                                  *)
(***************************************************************************)
C24_AttrMacro ==
    op = "attr" =>
        res = Ok(Attribute(id_macro(item[1], item[2]), id_macro(item[3], item[4])))

\* the same for the combinations with at most one prefix
AttrMacroOnePrefix ==
    (op = "attr" /\ (item[1] = "" \/ item[3] = "")) =>
        res = Ok(Attribute(id_macro(item[1], item[2]), id_macro(item[3], item[4])))

(***************************************************************************)
(* C25  Every arm of the graph! macro stores the Id it is given unchanged  *)
(* as the graph's id: for every Id i (Plain, Escaped, Html or Anonymous)   *)
(* graph!(strict di i) is Graph::DiGraph{id: i, strict: true, stmts: []}   *)
(* and graph!(di i) is Graph::DiGraph{id: i, strict: false, stmts: []},    *)
(* as with the arms that take statements.                                  *)
(***************************************************************************)
C25_GraphMacroId ==
    op = "graph" =>
        g = Graph(IF item.di THEN "DiGraph" ELSE "Graph", item.id, item.strict,
                  IF item.form = "none" THEN <<>> ELSE <<st_a>>)

\* the same for the arms of Graph::Graph, the arms with statements, and the
\* Plain ids
GraphMacroOtherArms ==
    (op = "graph" /\ (~item.di \/ item.form # "none" \/ item.id.tag = "Plain")) =>
        g = Graph(IF item.di THEN "DiGraph" ELSE "Graph", item.id, item.strict,
                  IF item.form = "none" THEN <<>> ELSE <<st_a>>)

====
